---- MODULE Spec2Model ----
(***************************************************************************)
(* svelte-fast-check: the incremental conversion cache, the diagnostic     *)
(* remapper, the false-positive filter, the warning collector and the      *)
(* orchestrator that merges the two pipelines.                             *)
(*                                                                         *)
(* Text (paths, generated code, messages) is a sequence of tokens; a token *)
(* stands for one character or one run of characters that the code never   *)
(* splits.  Columns and offsets are counted in tokens.                     *)
(***************************************************************************)
EXTENDS Integers, Sequences, FiniteSets, TLC

VARIABLES
  fs,        \* the file system: sources, generated files, sourcemaps, warning records
  clock,     \* the current time, in modification-time units
  pc,        \* "idle", "running" or "returned": the position of run()
  opts,      \* the RunOptions of the run in progress (or of the last run)
  tcpc,      \* the type-check worker's position
  results,   \* the ConversionResult list of the run
  converted, \* the sources handed to the transpiler in the run
  output,    \* what the engine process did
  tcOut,     \* the WorkerOutput of the type-check worker
  cwpc,      \* the compiler worker's position
  cwOut,     \* the WorkerOutput of the compiler worker
  result,    \* what run() returned: the CheckResult, or status "error" when it threw
  last,      \* what the run before the latest one did
  changed,   \* the files written, touched, deleted or damaged since the latest run
  call,      \* a direct call of the filter or of the remapper: arguments and return value
  dirs,      \* the directories of the cache that exist
  tasks,     \* the per-file tasks of the conversion fan-out in progress
  spawns     \* the engine processes spawned by the type-check worker in its run

vars == <<fs, clock, pc, opts, tcpc, results, converted, output, tcOut,
          cwpc, cwOut, result, last, changed, call, dirs, tasks, spawns>>

(***************************************************************************)
(* Bounds                                                                  *)
(***************************************************************************)
\* the number of source modifications in a session
MaxClock == 1

\* the number of type-check runs in a session
MaxRuns == 3

\* the longest diagnostic list handed to a direct call of the filter
MaxDiagnostics == 4

\* the greatest line and column of a diagnostic handed to a direct call
MaxLine == 2

MaxColumn == 14

(***************************************************************************)
(* Generic sequence helpers (String.prototype / Array.prototype)           *)
(***************************************************************************)
Min(a, b) == IF a <= b THEN a ELSE b

Max(a, b) == IF a >= b THEN a ELSE b

\* the value of an expression under a name (a const binding)
With(v, F(_)) == F(v)

\* s.startsWith(p)
StartsWith(s, p) == Len(p) <= Len(s) /\ SubSeq(s, 1, Len(p)) = p

\* s.endsWith(p)
EndsWith(s, p) == Len(p) <= Len(s) /\ SubSeq(s, Len(s) - Len(p) + 1, Len(s)) = p

\* s.slice(n) with a 0-based start
SliceFrom(s, n) == SubSeq(s, n + 1, Len(s))

\* s.slice(0, n)
SliceTo(s, n) == SubSeq(s, 1, Min(n, Len(s)))

\* s.indexOf(p, from): 0-based index of the first occurrence at or after from, -1 if none
IndexOfFrom(s, p, from) ==
  LET hits == {i \in Max(from, 0)..(Len(s) - Len(p)) : SubSeq(s, i + 1, i + Len(p)) = p}
  IN IF hits = {} THEN -1 ELSE CHOOSE i \in hits : \A j \in hits : i <= j

IndexOf(s, p) == IndexOfFrom(s, p, 0)

\* s.lastIndexOf(p, from): 0-based index of the last occurrence starting at or before from
LastIndexOf(s, p, from) ==
  LET hits == {i \in 0..Min(from, Len(s) - Len(p)) : SubSeq(s, i + 1, i + Len(p)) = p}
  IN IF hits = {} THEN -1 ELSE CHOOSE i \in hits : \A j \in hits : i >= j

\* Array.prototype.map
MapSeq(s, f(_)) == [i \in 1..Len(s) |-> f(s[i])]

\* concatenation of a sequence of sequences ([...a, ...b] / push(...r))
RECURSIVE Flatten(_)
Flatten(ss) == IF ss = <<>> THEN <<>> ELSE Head(ss) \o Flatten(Tail(ss))

Range(s) == {s[i] : i \in 1..Len(s)}

(***************************************************************************)
(* Paths                                                                   *)
(***************************************************************************)
RootDir == <<"/", "proj">>

DEFAULT_CACHE_ROOT == <<".fast-check">>

TSX_DIR == <<"tsx">>

MAPS_DIR == <<"maps">>

WARNINGS_DIR == <<"warnings">>

Sep == <<"/">>

\* the project's component sources, relative to rootDir, in glob order
PathAB == <<"src", "/", "a", "/", "b", ".svelte">>

PathA_B == <<"src", "/", "a", "_", "b", ".svelte">>

PathC == <<"src", "/", "c", ".svelte">>

SveltePaths == <<PathAB, PathA_B, PathC>>

Paths == Range(SveltePaths)

\* a plain TypeScript file of the project, checked by the engine as is
LibTs == <<"src", "/", "lib", ".ts">>

\* path.resolve(rootDir, p) for a relative p
Resolve(p) == IF StartsWith(p, Sep) THEN p ELSE RootDir \o Sep \o p

\* path.relative(rootDir, p) for p inside rootDir
Relative(p) == IF StartsWith(p, RootDir \o Sep) THEN SliceFrom(p, Len(RootDir) + 1) ELSE p

\* relativePath.replace(/[/\\]/g, '_')
SafeName(rel) == [i \in 1..Len(rel) |-> IF rel[i] = "/" THEN "_" ELSE rel[i]]

\* s.replace(/\.tsx$/, '')
StripTsx(s) == IF EndsWith(s, <<".tsx">>) THEN SubSeq(s, 1, Len(s) - 1) ELSE s

TsxDirAbs == RootDir \o Sep \o DEFAULT_CACHE_ROOT \o Sep \o TSX_DIR

getTsxPath(sourcePath) == TsxDirAbs \o Sep \o Relative(sourcePath) \o <<".tsx">>

getMapPath(sourcePath) ==
  RootDir \o Sep \o DEFAULT_CACHE_ROOT \o Sep \o MAPS_DIR \o Sep
    \o SafeName(Relative(sourcePath)) \o <<".map.json">>

getWarningsCachePath(sourcePath) ==
  RootDir \o Sep \o DEFAULT_CACHE_ROOT \o Sep \o WARNINGS_DIR \o Sep
    \o SafeName(Relative(sourcePath)) \o <<".json">>

SourcePaths == {Resolve(p) : p \in Paths}

TsxPaths == {getTsxPath(s) : s \in SourcePaths}

MapPaths == {getMapPath(s) : s \in SourcePaths}

WarnPaths == {getWarningsCachePath(s) : s \in SourcePaths}

AllPaths == SourcePaths \cup TsxPaths \cup MapPaths \cup WarnPaths

(***************************************************************************)
(* The file system: every path holds a file or nothing.  readable = FALSE  *)
(* is a file that exists (glob and stat see it) but cannot be read.        *)
(***************************************************************************)
NoFile == [exists |-> FALSE, mtime |-> 0, readable |-> FALSE, data |-> <<>>]

File(t, d) == [exists |-> TRUE, mtime |-> t, readable |-> TRUE, data |-> d]

existsSync(f, p) == p \in DOMAIN f /\ f[p].exists

\* readFile / readFileSync reject for a missing or unreadable file
CanRead(f, p) == existsSync(f, p) /\ f[p].readable

(***************************************************************************)
(* External collaborators: the transpiler, the sourcemap library, the      *)
(* component compiler.  A source file's content is one of a few texts,     *)
(* each with a fixed transpilation and a fixed list of compiler warnings.  *)
(***************************************************************************)
Contents == {"v1", "v2", "bad"}

IGNORE_START == <<"/*", "ignore_start", "*/">>

IGNORE_END == <<"/*", "ignore_end", "*/">>

STORE_GET_PATTERN == <<"__sveltets_2_store_get", "(">>

TS_NO_OVERLOAD_MATCHES == 2769

\* tokens matched by the regular expression class \w
WordTokens == {"foo", "bar", "x", "y", "z", "let", "export", "async", "value",
               "__sveltets_2_store_get", "__sveltets_2_ensureComponent"}

\* tokens matched by the regular expression class \s
SpaceTokens == {" ", "\n"}

\* the text of the generated file: tokens, lines separated by "\n"
GenCode(c) ==
  IF c = "v1"
  THEN IGNORE_START \o <<"$", "foo", "=">> \o STORE_GET_PATTERN \o <<"foo", ")">> \o IGNORE_END
         \o <<"\n", "x", "=", "$", "foo">>
  ELSE <<"y", "\n", "z">>

\* decoded sourcemap: segments [gl, gc] -> [ol, oc]; lines 1-based, columns 0-based
GenMap(c) ==
  IF c = "v1"
  THEN [version |-> 3,
        mappings |-> {[gl |-> 2, gc |-> 0, ol |-> 3, oc |-> 2],
                      [gl |-> 2, gc |-> 2, ol |-> 3, oc |-> 5]}]
  ELSE [version |-> 3,
        mappings |-> {[gl |-> 1, gc |-> 0, ol |-> 1, oc |-> 0]}]

\* svelte2tsx(content, ...) throws on a component it cannot parse
Svelte2tsxThrows(c) == c = "bad"

svelte2tsx(c) == [code |-> GenCode(c), map |-> GenMap(c)]

\* the map of a failed or unloadable conversion: { mappings: '', sources: [] }
EmptyMap == [version |-> 0, mappings |-> {}]

\* JSON.stringify / JSON.parse of a cache record
JsonStringify(v) == <<"json", v>>

JsonParses(d) == Len(d) = 2 /\ d[1] = "json"

JsonParse(d) == d[2]

NullPos == [line |-> -1, column |-> -1, isNull |-> TRUE]

\* originalPositionFor throws for line < 1 or column < 0
TraceThrows(line, column) == line < 1 \/ column < 0

\* originalPositionFor(tracer, {line, column}): the segment of that generated
\* line with the greatest generated column <= column, or null
originalPositionFor(map, line, column) ==
  LET segs == {m \in map.mappings : m.gl = line /\ m.gc <= column}
  IN IF segs = {} THEN NullPos
     ELSE LET m == CHOOSE x \in segs : \A y \in segs : y.gc <= x.gc
          IN [line |-> m.ol, column |-> m.oc, isNull |-> FALSE]

\* compile(content, {generate: false}) throws on a component it cannot parse
CompileThrows(c) == c = "bad"

\* result.warnings of compile(content, {filename, generate: false})
CompileWarnings(filename, c) ==
  IF c = "v1"
  THEN << [code |-> "state_referenced_locally", message |-> <<"state", "referenced", "locally">>,
           filename |-> filename, start |-> [line |-> 2, column |-> 0]] >>
  ELSE << [code |-> "a11y_missing_attribute", message |-> <<"a11y", "missing">>,
           filename |-> filename, start |-> [line |-> 1, column |-> 3]],
          [code |-> "css_unused_selector", message |-> <<"unused", "selector">>,
           filename |-> filename, start |-> [line |-> 4, column |-> 1]] >>


(***************************************************************************)
(* Conversion Cache Manager (typecheck/convert.ts)                         *)
(***************************************************************************)
\* findSvelteFiles: the component sources that exist, as absolute paths in glob order
findSvelteFiles(f) ==
  SelectSeq(MapSeq(SveltePaths, Resolve), LAMBDA sp : existsSync(f, sp))

\* convertSvelteFileAsync: the ConversionResult of one file; a read failure or a
\* transpiler exception is caught and becomes success = FALSE
convertSvelteFileAsync(f, sourcePath) ==
  IF ~CanRead(f, sourcePath)
  THEN [sourcePath |-> sourcePath, outputPath |-> getTsxPath(sourcePath),
        map |-> EmptyMap, success |-> FALSE, error |-> "read failed"]
  ELSE IF Svelte2tsxThrows(f[sourcePath].data)
  THEN [sourcePath |-> sourcePath, outputPath |-> getTsxPath(sourcePath),
        map |-> EmptyMap, success |-> FALSE, error |-> "svelte2tsx threw"]
  ELSE [sourcePath |-> sourcePath, outputPath |-> getTsxPath(sourcePath),
        map |-> svelte2tsx(f[sourcePath].data).map, success |-> TRUE, error |-> ""]

\* a batch that writes nothing once one of its conversions fails
WriteArtifactsUnlessOneFails(f, t, batch, win) ==
  LET ok == IF \A sp \in Range(batch) : convertSvelteFileAsync(f, sp).success
            THEN Range(batch) ELSE {}
  IN [q \in DOMAIN f |->
       IF \E sp \in ok : getTsxPath(sp) = q
       THEN File(t, svelte2tsx(f[CHOOSE sp \in ok : getTsxPath(sp) = q].data).code)
       ELSE IF \E sp \in ok : getMapPath(sp) = q
       THEN File(t, JsonStringify(svelte2tsx(f[win[q]].data).map))
       ELSE f[q]]

\* the writeFile calls of the successful conversions of a batch, at time t.
\* Two sources whose map paths coincide write the same file; win[q] is the
\* source whose write to q lands last.
WriteArtifacts(f, t, batch, win) ==
  LET ok == {sp \in Range(batch) : convertSvelteFileAsync(f, sp).success}
  IN [q \in DOMAIN f |->
       IF \E sp \in ok : getTsxPath(sp) = q
       THEN File(t, svelte2tsx(f[CHOOSE sp \in ok : getTsxPath(sp) = q].data).code)
       ELSE IF \E sp \in ok : getMapPath(sp) = q
       THEN File(t, JsonStringify(svelte2tsx(f[win[q]].data).map))
       ELSE f[q]]

\* the possible orders in which colliding sourcemap writes of a batch land
Winners(f, batch) ==
  LET ok == {sp \in Range(batch) : convertSvelteFileAsync(f, sp).success}
      W(q) == {sp \in ok : getMapPath(sp) = q}
  IN {win \in [MapPaths -> SourcePaths] :
        \A q \in MapPaths : IF W(q) = {} THEN win[q] = Resolve(PathAB) ELSE win[q] \in W(q)}

\* loadSourcemap: null when the file is missing or does not parse
loadSourcemapOk(f, mapPath) ==
  existsSync(f, mapPath) /\ CanRead(f, mapPath) /\ JsonParses(f[mapPath].data)

loadSourcemap(f, mapPath) == JsonParse(f[mapPath].data)

\* convertChangedFiles, classification loop: skip iff the generated file and the
\* sourcemap exist and the generated file is not older than the source
IsSkipped(f, sourcePath) ==
  /\ existsSync(f, getTsxPath(sourcePath))
  /\ existsSync(f, getMapPath(sourcePath))
  /\ f[getTsxPath(sourcePath)].mtime >= f[sourcePath].mtime

skippedFiles(f) == SelectSeq(findSvelteFiles(f), LAMBDA sp : IsSkipped(f, sp))

toConvert(f) == SelectSeq(findSvelteFiles(f), LAMBDA sp : ~IsSkipped(f, sp))

skippedResult(f, sourcePath) ==
  [sourcePath |-> sourcePath, outputPath |-> getTsxPath(sourcePath),
   map |-> IF loadSourcemapOk(f, getMapPath(sourcePath))
           THEN loadSourcemap(f, getMapPath(sourcePath)) ELSE EmptyMap,
   success |-> loadSourcemapOk(f, getMapPath(sourcePath)), error |-> ""]

\* the sourcemap path cleanOrphanTsxFiles derives from a generated file's path
OrphanMapPath(tsxPath) ==
  RootDir \o Sep \o DEFAULT_CACHE_ROOT \o Sep \o MAPS_DIR \o Sep
    \o SafeName(StripTsx(SliceFrom(tsxPath, Len(TsxDirAbs) + 1))) \o <<".map.json">>

\* globSync('**/*.svelte.tsx', {cwd: tsxDir})
existingTsxFiles(f) ==
  {q \in DOMAIN f : /\ f[q].exists
                    /\ StartsWith(q, TsxDirAbs \o Sep)
                    /\ EndsWith(q, <<".svelte", ".tsx">>)}

\* cleanOrphanTsxFiles: unlink every generated file outside validTsxPaths and
\* the sourcemap whose name is derived from it
cleanOrphanTsxFiles(f, validTsxPaths) ==
  LET orphans == existingTsxFiles(f) \ validTsxPaths
  IN [q \in DOMAIN f |->
       IF q \in orphans \/ (\E o \in orphans : OrphanMapPath(o) = q) THEN NoFile ELSE f[q]]

validTsxPaths(f) == {getTsxPath(sp) : sp \in Range(findSvelteFiles(f))}

\* buildSourcemapMap: outputPath -> map of the successful results
buildSourcemapMap(rs) ==
  [q \in {r.outputPath : r \in {x \in Range(rs) : x.success}} |->
     (CHOOSE r \in Range(rs) : r.success /\ r.outputPath = q).map]


(***************************************************************************)
(* Regular expressions over token sequences.  A position is the 1-based    *)
(* index of the next token to read; every operator maps the set of         *)
(* positions before a sub-pattern to the set of positions after it.        *)
(***************************************************************************)
\* one literal token
ReTok(s, P, t) == {i + 1 : i \in {j \in P : j <= Len(s) /\ s[j] = t}}

\* one token of a class
ReCls(s, P, C) == {i + 1 : i \in {j \in P : j <= Len(s) /\ s[j] \in C}}

\* C* : zero or more tokens of a class
ReStar(s, P, C) ==
  {k \in 1..(Len(s) + 1) : \E i \in P : i <= k /\ \A j \in i..(k - 1) : s[j] \in C}

\* C+ : one or more tokens of a class
RePlus(s, P, C) == ReStar(s, ReCls(s, P, C), C)

\* a literal sequence of tokens
ReLit(s, P, lit) ==
  {i + Len(lit) : i \in {j \in P : j + Len(lit) - 1 <= Len(s) /\ SubSeq(s, j, j + Len(lit) - 1) = lit}}

\* every position of s: an unanchored pattern may start anywhere
ReAny(s) == 1..(Len(s) + 1)

\* s.includes(t) for one token
Includes(s, t) == \E i \in 1..Len(s) : s[i] = t

\* content.split('\n')
RECURSIVE Split(_)
Split(text) ==
  LET n == IndexOf(text, <<"\n">>)
  IN IF n = -1 THEN <<text>> ELSE <<SliceTo(text, n)>> \o Split(SliceFrom(text, n + 1))


(***************************************************************************)
(* False-Positive Filter (typecheck/filter.ts)                             *)
(***************************************************************************)
USED_BEFORE_ASSIGNED == 2454

UNUSED_LABEL == 7028

DEPRECATED_SIGNATURE == 6387

DUPLICATE_IDENTIFIER == 2300

MULTIPLE_PROPS_SAME_NAME == 1117

DUPLICATED_JSX_ATTRIBUTES == 17001

PROPERTY_MISSING == 2741

NO_OVERLOAD_MATCHES_CALL == 2769

ARG_TYPE_NOT_ASSIGNABLE == 2345

IMPLICIT_ANY_PARAMETER == 7006

IMPLICIT_ANY_BINDING == 7031

MODULE_NOT_FOUND == 2307

NO_EXPORTED_MEMBER == 2614

assetExtensions == {".avif", ".png", ".jpg", ".jpeg", ".gif", ".svg", ".webp", ".ico"}

RECURSIVE SumLineLengths(_, _)
SumLineLengths(lines, n) ==
  IF n <= 0 THEN 0 ELSE SumLineLengths(lines, n - 1) + Len(lines[n]) + 1

\* the character offset of a diagnostic: the lengths of the lines before it
\* (+1 per newline) plus its 0-based column
OffsetOf(content, d) ==
  SumLineLengths(Split(content), Min(d.line - 1, Len(Split(content)))) + d.column - 1

\* a test that accepts any position on a line that calls the getter
isStoreVariableOnGetterLine(content, d) ==
  /\ d.line > 0 /\ d.line <= Len(Split(content))
  /\ \E i \in 1..Len(Split(content)[d.line]) : Split(content)[d.line][i] = "__sveltets_2_store_get"

\* isStoreVariableInStoreDeclaration: the text right before the offset is the getter call
isStoreVariableInStoreDeclaration(content, d) ==
  LET offset == OffsetOf(content, d)
      expectedStart == offset - Len(STORE_GET_PATTERN)
  IN IF expectedStart < 0 THEN FALSE
     ELSE SubSeq(content, expectedStart + 1, Min(offset, Len(content))) = STORE_GET_PATTERN

\* the while loop of isInGeneratedCode
RECURSIVE IgnoreScan(_, _, _, _)
IgnoreScan(content, offset, inIgnore, searchPos) ==
  IF inIgnore
  THEN LET endPos == IndexOfFrom(content, IGNORE_END, searchPos)
       IN IF endPos = -1 \/ endPos > offset THEN TRUE
          ELSE IgnoreScan(content, offset, FALSE, endPos + Len(IGNORE_END))
  ELSE LET startPos == IndexOfFrom(content, IGNORE_START, searchPos)
       IN IF startPos = -1 \/ startPos > offset THEN FALSE
          ELSE IgnoreScan(content, offset, TRUE, startPos + Len(IGNORE_START))

\* a region test that takes the column for the offset
isInGeneratedCodeByColumn(content, d) == IgnoreScan(content, d.column - 1, FALSE, 0)

isInGeneratedCode(content, d) == IgnoreScan(content, OffsetOf(content, d), FALSE, 0)

\* the guard d.line <= 0 || d.line > lines.length of the line helpers
HasLine(content, d) == d.line > 0 /\ d.line <= Len(Split(content))

\* lines[d.line - 1]
LineAt(content, d) == Split(content)[d.line]

\* isExportLetProp: content matches export\s+let\s+<name>\b
isExportLetProp(content, d) ==
  LET hits == {i \in 1..Len(d.message) : d.message[i] = "Variable '"}
      ends(i) == {j \in (i + 2)..Len(d.message) :
                    /\ d.message[j] = "' is used before being assigned"
                    /\ \A k \in (i + 1)..(j - 1) : d.message[k] \in WordTokens}
  IN IF \A i \in hits : ends(i) = {} THEN FALSE
     ELSE LET i == CHOOSE x \in hits : ends(x) # {} /\ \A y \in hits : ends(y) # {} => x <= y
              j == CHOOSE x \in ends(i) : TRUE
              varName == SubSeq(d.message, i + 1, j - 1)
              after == ReLit(content,
                         RePlus(content,
                           ReTok(content,
                             RePlus(content, ReTok(content, ReAny(content), "export"), SpaceTokens),
                             "let"),
                           SpaceTokens),
                         varName)
          IN \E q \in after : q > Len(content) \/ content[q] \notin WordTokens

\* generatedVarRegex.test(message): /'\$\$_\w+(\.\$on)?'/
generatedVarRegex(message) ==
  LET w == RePlus(message, ReTok(message, ReTok(message, ReAny(message), "'"), "$$_"), WordTokens)
  IN ReTok(message, w \cup ReTok(message, w, ".$on"), "'") # {}

\* isInJsxAttribute: the line contains < and = or {
isInJsxAttribute(content, d) ==
  IF ~HasLine(content, d) THEN FALSE
  ELSE LET line == LineAt(content, d)
       IN Includes(line, "<") /\ (Includes(line, "=") \/ Includes(line, "{"))

\* isBindThisAssignment: /\w+\s*=\s*\$\$_\w+/ on the line
isBindThisAssignment(content, d) ==
  IF ~HasLine(content, d) THEN FALSE
  ELSE LET line == LineAt(content, d)
           lhs == ReStar(line, RePlus(line, ReAny(line), WordTokens), SpaceTokens)
           eq == ReStar(line, ReTok(line, lhs, "="), SpaceTokens)
       IN RePlus(line, ReTok(line, eq, "$$_"), WordTokens) # {}

\* isInEnsureComponentCall
isInEnsureComponentCall(content, d) ==
  IF ~HasLine(content, d) THEN FALSE
  ELSE Includes(LineAt(content, d), "__sveltets_2_ensureComponent")

\* (,\s*\w+)* : zero or more further parameters
RECURSIVE ReMoreParams(_, _)
ReMoreParams(s, P) ==
  LET Q == P \cup RePlus(s, ReStar(s, ReTok(s, P, ","), SpaceTokens), WordTokens)
  IN IF Q = P THEN P ELSE ReMoreParams(s, Q)

\* /"\w+":\s*(async\s+)?\(?\s*\w+\s*(,\s*\w+)*\s*\)?\s*=>/
ReArrowCallback(line) ==
  LET key == ReTok(line, ReTok(line, RePlus(line, ReTok(line, ReAny(line), "\""), WordTokens), "\""), ":")
      sp1 == ReStar(line, key, SpaceTokens)
      asy == sp1 \cup RePlus(line, ReTok(line, sp1, "async"), SpaceTokens)
      par == ReStar(line, asy \cup ReTok(line, asy, "("), SpaceTokens)
      fst == ReStar(line, RePlus(line, par, WordTokens), SpaceTokens)
      rest == ReStar(line, ReMoreParams(line, fst), SpaceTokens)
      close == ReStar(line, rest \cup ReTok(line, rest, ")"), SpaceTokens)
  IN ReTok(line, close, "=>") # {}

\* /\(\s*\[/ and /\]\s*\)\s*=>/
ReDestructuring(line) ==
  /\ ReTok(line, ReStar(line, ReTok(line, ReAny(line), "("), SpaceTokens), "[") # {}
  /\ ReTok(line, ReStar(line, ReTok(line, ReStar(line, ReTok(line, ReAny(line), "]"),
            SpaceTokens), ")"), SpaceTokens), "=>") # {}

\* /\(\s*\w+\s*\)\s*=>/
ReSingleParamArrow(line) ==
  LET open == ReStar(line, ReTok(line, ReAny(line), "("), SpaceTokens)
      name == ReStar(line, RePlus(line, open, WordTokens), SpaceTokens)
  IN ReTok(line, ReStar(line, ReTok(line, name, ")"), SpaceTokens), "=>") # {}

\* lines.slice(startLine, d.line).join('\n') with startLine = max(0, d.line - 10)
contextLines(content, d) ==
  LET lines == Split(content)
  IN Flatten([i \in 1..(Min(d.line, Len(lines)) - Max(0, d.line - 10)) |->
                (IF i = 1 THEN <<>> ELSE <<"\n">>) \o lines[Max(0, d.line - 10) + i]])

\* isInComponentPropCallback
isInComponentPropCallback(content, d) ==
  IF ~HasLine(content, d) THEN FALSE
  ELSE LET line == LineAt(content, d)
           ctx == contextLines(content, d)
       IN \/ /\ (Includes(ctx, "__sveltets_2_ensureComponent") \/ IndexOf(ctx, <<"new", " ", "$$_">>) # -1)
             /\ (ReArrowCallback(line) \/ ReDestructuring(line))
          \/ Includes(line, "#snippet")
          \/ ReSingleParamArrow(line)

\* isAssetImport: /Cannot find module '([^']*)'/ names a path with an asset extension
isAssetImport(message) ==
  LET starts == {i \in 1..Len(message) :
                   message[i] = "Cannot find module '" /\ \E j \in (i + 1)..Len(message) : message[j] = "'"}
  IN IF starts = {} THEN FALSE
     ELSE LET i == CHOOSE x \in starts : \A y \in starts : x <= y
              j == CHOOSE x \in (i + 1)..Len(message) :
                     message[x] = "'" /\ \A y \in (i + 1)..(x - 1) : message[y] # "'"
          IN j > i + 1 /\ message[j - 1] \in assetExtensions

\* the predicate of filterFalsePositives for a diagnostic whose file has content
KeepWithContent(content, d) ==
  IF isInGeneratedCode(content, d)
  THEN d.code = NO_OVERLOAD_MATCHES_CALL /\ isStoreVariableInStoreDeclaration(content, d)
  ELSE IF d.code = USED_BEFORE_ASSIGNED /\ isExportLetProp(content, d) THEN FALSE
  ELSE IF d.code = UNUSED_LABEL THEN FALSE
  ELSE IF d.code = DEPRECATED_SIGNATURE /\ generatedVarRegex(d.message) THEN FALSE
  ELSE IF d.code \in {DUPLICATE_IDENTIFIER, MULTIPLE_PROPS_SAME_NAME} /\ isInJsxAttribute(content, d)
  THEN FALSE
  ELSE IF d.code = DUPLICATED_JSX_ATTRIBUTES THEN FALSE
  ELSE IF d.code = PROPERTY_MISSING /\ isBindThisAssignment(content, d) THEN FALSE
  ELSE IF /\ d.code = ARG_TYPE_NOT_ASSIGNABLE
          /\ (Includes(d.message, "ConstructorOfATypedSvelteComponent")
                \/ isInEnsureComponentCall(content, d))
  THEN FALSE
  ELSE IF /\ d.code \in {IMPLICIT_ANY_PARAMETER, IMPLICIT_ANY_BINDING}
          /\ EndsWith(d.file, <<".svelte", ".tsx">>)
          /\ isInComponentPropCallback(content, d)
  THEN FALSE
  ELSE IF d.code = MODULE_NOT_FOUND /\ isAssetImport(d.message) THEN FALSE
  ELSE IF d.code = NO_EXPORTED_MEMBER /\ Includes(d.message, "*.svelte") THEN FALSE
  ELSE TRUE

\* a filter that runs its rules on an empty text when it has no content
filterFalsePositivesWithoutGuard(diagnostics, tsxContents) ==
  SelectSeq(diagnostics, LAMBDA d :
    KeepWithContent(IF d.file \in DOMAIN tsxContents THEN tsxContents[d.file] ELSE <<>>, d))

\* filterFalsePositives: tsxContents is a function from file to text; a file
\* with no content, or with empty content, is kept
filterFalsePositives(diagnostics, tsxContents) ==
  SelectSeq(diagnostics, LAMBDA d :
    IF d.file \notin DOMAIN tsxContents \/ tsxContents[d.file] = <<>> THEN TRUE
    ELSE KeepWithContent(tsxContents[d.file], d))

\* extractTsxFiles: the generated files named by the diagnostics
extractTsxFiles(diagnostics) ==
  {d.file : d \in {x \in Range(diagnostics) : EndsWith(x.file, <<".svelte", ".tsx">>)}}

\* loadTsxContents: the text of every named file that exists and can be read
loadTsxContents(f, files) ==
  [file \in {x \in files : CanRead(f, Resolve(x))} |-> f[Resolve(file)].data]


(***************************************************************************)
(* Engine output parser (typecheck/parser.ts)                              *)
(***************************************************************************)
\* one line of engine output: <path>(<line>,<col>): <severity> TS<code>: <message>
FormatLine(d) ==
  <<d.file, "(", d.line, ",", d.column, ")", ":", d.severity, "TS", d.code, ":", d.message>>

\* the pattern /^(.+?)\((\d+),(\d+)\):\s*(error|warning)\s+TS(\d+):\s*(.+)$/
MatchesPattern(l) ==
  /\ Len(l) = 12
  /\ l[2] = "(" /\ l[4] = "," /\ l[6] = ")" /\ l[7] = ":" /\ l[9] = "TS" /\ l[11] = ":"
  /\ l[8] \in {"error", "warning"}
  /\ l[1] # <<>> /\ l[12] # <<>>
  /\ l[3] >= 0 /\ l[5] >= 0 /\ l[10] >= 0

\* parseTscOutput followed by the source tag of the worker
parseTscOutput(text) ==
  MapSeq(SelectSeq(text, MatchesPattern),
         LAMBDA l : [file |-> l[1], line |-> l[3], column |-> l[5], code |-> l[10],
                     message |-> l[12], severity |-> l[8]])

\* countDiagnostics: errors, and everything else as warnings
countDiagnostics(diagnostics) ==
  [errorCount |-> Len(SelectSeq(diagnostics, LAMBDA d : d.severity = "error")),
   warningCount |-> Len(SelectSeq(diagnostics, LAMBDA d : d.severity # "error"))]

(***************************************************************************)
(* Diagnostic Remapper (typecheck/mapper.ts)                               *)
(***************************************************************************)
\* tsxPathToOriginal: strip the cache prefix (absolute or relative) and .tsx
tsxPathToOriginal(tsxPath) ==
  IF StartsWith(tsxPath, TsxDirAbs \o Sep)
  THEN StripTsx(SliceFrom(tsxPath, Len(TsxDirAbs) + 1))
  ELSE IF StartsWith(tsxPath, DEFAULT_CACHE_ROOT \o Sep \o TSX_DIR \o Sep)
  THEN StripTsx(SliceFrom(tsxPath, Len(DEFAULT_CACHE_ROOT \o Sep \o TSX_DIR \o Sep)))
  ELSE StripTsx(tsxPath)

Mapped(d, file, line, column, message) ==
  [file |-> d.file, line |-> d.line, column |-> d.column, code |-> d.code,
   message |-> message, severity |-> d.severity, source |-> d.source,
   originalFile |-> file, originalLine |-> line, originalColumn |-> column,
   svelteCode |-> ""]

NoLocation == [found |-> FALSE, line |-> 0, column |-> 0, storeName |-> <<>>]

\* afterPattern.match(/^(\w+)/): the leading run of word tokens
LeadingWord(s) ==
  SubSeq(s, 1, CHOOSE n \in 0..Len(s) :
                 /\ \A k \in 1..n : s[k] \in WordTokens
                 /\ (n = Len(s) \/ s[n + 1] \notin WordTokens))

\* one line of the scan of findStoreUsageLocation: the part of the line that is
\* searched, the column it starts at, and the comment state after the line
ScanLine(line, inMultiLineComment) ==
  With(IndexOf(line, <<"*/">>), LAMBDA endIdx :
  With(IF inMultiLineComment /\ endIdx # -1 THEN SliceFrom(line, endIdx + 1) ELSE line, LAMBDA s0 :
  With(IndexOf(s0, <<"//">>), LAMBDA singleCommentIdx :
  With(IF singleCommentIdx # -1 THEN SliceTo(s0, singleCommentIdx) ELSE s0, LAMBDA s1 :
  With(IndexOf(s1, <<"/*">>), LAMBDA multiStartIdx :
  With(IF multiStartIdx = -1 THEN -1 ELSE IndexOfFrom(s1, <<"*/">>, multiStartIdx), LAMBDA multiEndIdx :
    [skip |-> inMultiLineComment /\ endIdx = -1,
     searchLine |-> IF multiStartIdx = -1 THEN s1
                    ELSE IF multiEndIdx = -1 THEN SliceTo(s1, multiStartIdx)
                    ELSE SliceTo(s1, multiStartIdx) \o SliceFrom(s1, multiEndIdx + 1),
     columnOffset |-> IF inMultiLineComment /\ endIdx # -1 THEN endIdx + 1 ELSE 0,
     inMultiLineComment |-> IF inMultiLineComment /\ endIdx = -1 THEN TRUE
                            ELSE multiStartIdx # -1 /\ multiEndIdx = -1]))))))

\* the for loop of findStoreUsageLocation from 0-based line lineIdx
RECURSIVE StoreScan(_, _, _, _, _)
StoreScan(lines, lineIdx, inMultiLineComment, storeName, map) ==
  IF lineIdx >= Len(lines) THEN NoLocation
  ELSE IF lines[lineIdx + 1] = <<>>
  THEN StoreScan(lines, lineIdx + 1, inMultiLineComment, storeName, map)
  ELSE With(ScanLine(lines[lineIdx + 1], inMultiLineComment), LAMBDA sc :
       With(IndexOf(sc.searchLine, <<"$">> \o storeName), LAMBDA idx :
       With(idx + Len(storeName) + 2, LAMBDA after :
       With(originalPositionFor(map, lineIdx + 1, sc.columnOffset + idx), LAMBDA mapped :
         IF (sc.skip \/ idx = -1)
            \/ (after <= Len(sc.searchLine) /\ sc.searchLine[after] \in WordTokens)
            \/ mapped.isNull
         THEN StoreScan(lines, lineIdx + 1, sc.inMultiLineComment, storeName, map)
         ELSE [found |-> TRUE, line |-> mapped.line, column |-> mapped.column + 1,
               storeName |-> storeName]))))

\* findStoreUsageLocation
findStoreUsageLocation(content, d, map) ==
  With(Split(content), LAMBDA lines :
    IF d.line < 1 \/ d.line > Len(lines) \/ lines[d.line] = <<>> THEN NoLocation
    ELSE With(LastIndexOf(lines[d.line], STORE_GET_PATTERN, d.column), LAMBDA storeGetIndex :
         With(IF storeGetIndex = -1 THEN <<>>
              ELSE LeadingWord(SliceFrom(lines[d.line], storeGetIndex + Len(STORE_GET_PATTERN))),
              LAMBDA storeName :
           IF storeName = <<>> THEN NoLocation
           ELSE StoreScan(lines, d.line, FALSE, storeName, map))))

\* the message of a rescued store-misuse diagnostic
StoreMessage(storeName, message) ==
  <<"Cannot use '">> \o storeName \o <<"' as a store. '">> \o storeName
    \o <<"' needs to be an object with a subscribe method on it.", "\n\n">> \o message

\* a remapper that emits at the generated position when the query fails
mapDiagnosticRelabelsFailures(d, sourcemaps, tsxContents) ==
  IF ~EndsWith(d.file, <<".svelte", ".tsx">>)
  THEN <<Mapped(d, d.file, d.line, d.column, d.message)>>
  ELSE IF Resolve(d.file) \notin DOMAIN sourcemaps \/ TraceThrows(d.line, d.column - 1)
  THEN <<Mapped(d, tsxPathToOriginal(d.file), d.line, d.column, d.message)>>
  ELSE With(originalPositionFor(sourcemaps[Resolve(d.file)], d.line, d.column - 1), LAMBDA original :
         IF original.isNull
         THEN <<Mapped(d, tsxPathToOriginal(d.file), d.line, d.column, d.message)>>
         ELSE <<Mapped(d, tsxPathToOriginal(d.file), original.line, original.column + 1,
                       d.message)>>)

\* a remapper that emits the 0-based column of the sourcemap as it is
mapDiagnosticKeepsZeroBasedColumn(d, sourcemaps, tsxContents) ==
  IF ~EndsWith(d.file, <<".svelte", ".tsx">>)
  THEN <<Mapped(d, d.file, d.line, d.column, d.message)>>
  ELSE IF Resolve(d.file) \notin DOMAIN sourcemaps
  THEN <<Mapped(d, tsxPathToOriginal(d.file), d.line, d.column, d.message)>>
  ELSE IF TraceThrows(d.line, d.column - 1) THEN <<>>
  ELSE With(originalPositionFor(sourcemaps[Resolve(d.file)], d.line, d.column - 1), LAMBDA original :
         IF original.isNull THEN <<>>
         ELSE <<Mapped(d, tsxPathToOriginal(d.file), original.line, original.column, d.message)>>)

\* a remapper that drops what it has no sourcemap for
mapDiagnosticDropsUnmapped(d, sourcemaps, tsxContents) ==
  IF ~EndsWith(d.file, <<".svelte", ".tsx">>)
  THEN <<Mapped(d, d.file, d.line, d.column, d.message)>>
  ELSE <<>>

\* mapDiagnostic: no element for a dropped diagnostic, one element otherwise
mapDiagnostic(d, sourcemaps, tsxContents) ==
  IF ~EndsWith(d.file, <<".svelte", ".tsx">>)
  THEN <<Mapped(d, d.file, d.line, d.column, d.message)>>
  ELSE IF Resolve(d.file) \notin DOMAIN sourcemaps
  THEN <<Mapped(d, tsxPathToOriginal(d.file), d.line, d.column, d.message)>>
  ELSE IF TraceThrows(d.line, d.column - 1) THEN <<>>
  ELSE With(sourcemaps[Resolve(d.file)], LAMBDA map :
       With(originalPositionFor(map, d.line, d.column - 1), LAMBDA original :
         IF ~original.isNull
         THEN <<Mapped(d, tsxPathToOriginal(d.file), original.line, original.column + 1, d.message)>>
         ELSE IF /\ d.code = TS_NO_OVERLOAD_MATCHES
                 /\ d.file \in DOMAIN tsxContents
                 /\ tsxContents[d.file] # <<>>
         THEN With(findStoreUsageLocation(tsxContents[d.file], d, map), LAMBDA loc :
                IF loc.found
                THEN <<Mapped(d, tsxPathToOriginal(d.file), loc.line, loc.column,
                              StoreMessage(loc.storeName, d.message))>>
                ELSE <<>>)
         ELSE <<>>))

mapDiagnostics(diagnostics, sourcemaps, tsxContents) ==
  Flatten(MapSeq(diagnostics, LAMBDA d : mapDiagnostic(d, sourcemaps, tsxContents)))

\* filterNegativeLines
\* a final pass that drops nothing
filterNegativeLinesKeepsAll(diagnostics) == diagnostics

filterNegativeLines(diagnostics) ==
  SelectSeq(diagnostics, LAMBDA d : d.originalLine > 0 /\ d.originalColumn > 0)


(***************************************************************************)
(* The external type-checking engine                                       *)
(***************************************************************************)
Finding(file, line, column, severity, code, message) ==
  [file |-> file, line |-> line, column |-> column, severity |-> severity,
   code |-> code, message |-> message]

\* what the engine reports for a generated file with the given text.  The
\* output format admits a line or column of 0.
TypeErrors(file, text) ==
  IF text = GenCode("v1")
  THEN << Finding(file, 1, 9, "error", 2769, <<"No overload matches this call.">>),
          Finding(file, 1, 4, "error", 2322, <<"Type is not assignable.">>),
          Finding(file, 2, 1, "error", 2322, <<"Type is not assignable.">>) >>
  ELSE IF text = GenCode("v2")
  THEN << Finding(file, 1, 1, "error", 2322, <<"Type is not assignable.">>),
          Finding(file, 1, 1, "error", 7028, <<"Unused label.">>),
          Finding(file, 2, 1, "error", 2322, <<"Type is not assignable.">>),
          Finding(file, 0, 1, "warning", 2322, <<"Type is not assignable.">>) >>
  ELSE <<>>

\* what the engine reports for the plain TypeScript files of the project
LibErrors ==
  << Finding(LibTs, 3, 1, "error", 2322, <<"Type is not assignable.">>),
     Finding(LibTs, 5, 0, "warning", 6133, <<"Declared but never read.">>) >>

\* the generated tsconfig includes ./tsx/**/*.svelte.tsx: every generated file
\* on disk is checked, whether or not its source still exists
EngineReport(f) ==
  LET tsx == SelectSeq(MapSeq(SveltePaths, LAMBDA p : getTsxPath(Resolve(p))),
                       LAMBDA q : CanRead(f, q))
      findings == Flatten(MapSeq(tsx, LAMBDA q : TypeErrors(Relative(q), f[q].data))) \o LibErrors
  IN MapSeq(findings, FormatLine) \o << <<>> >>

EmptyText == << <<>> >>

BlankText == << <<" ">>, <<>> >>

\* output.trim() === ""
TrimIsEmpty(text) ==
  \A i \in 1..Len(text) :
    ~MatchesPattern(text[i]) /\ \A k \in 1..Len(text[i]) : text[i][k] \in SpaceTokens

(***************************************************************************)
(* Warning Collector (compiler/collect.ts)                                 *)
(***************************************************************************)
\* getSvelteWarnings: a compile error yields no warnings
getSvelteWarnings(filePath, content) ==
  IF CompileThrows(content) THEN <<>> ELSE CompileWarnings(filePath, content)

\* warningToDiagnostic: 0-based column to 1-based, path relative to rootDir
warningToDiagnostic(w) ==
  LET relativePath == IF StartsWith(w.filename, RootDir) THEN Relative(w.filename) ELSE w.filename
  IN [file |-> relativePath, line |-> w.start.line, column |-> w.start.column + 1, code |-> 0,
      message |-> w.message, severity |-> "warning", source |-> "svelte",
      originalFile |-> relativePath, originalLine |-> w.start.line,
      originalColumn |-> w.start.column + 1, svelteCode |-> w.code]

\* the per-file task of collectAllSvelteWarnings; readFile is not guarded
collectAllTaskFails(f, sourcePath) == ~CanRead(f, sourcePath)

collectAllTask(f, sourcePath) ==
  MapSeq(getSvelteWarnings(sourcePath, f[sourcePath].data), warningToDiagnostic)

\* collectChangedSvelteWarnings: the cache record is used iff it exists, parses
\* and its mtime is not older than the source
CacheValid(f, sourcePath) ==
  /\ existsSync(f, getWarningsCachePath(sourcePath))
  /\ existsSync(f, sourcePath)
  /\ CanRead(f, getWarningsCachePath(sourcePath))
  /\ JsonParses(f[getWarningsCachePath(sourcePath)].data)
  /\ JsonParse(f[getWarningsCachePath(sourcePath)].data).mtime >= f[sourcePath].mtime

collectChangedTaskFails(f, sourcePath) == ~CacheValid(f, sourcePath) /\ ~CanRead(f, sourcePath)

collectChangedTask(f, sourcePath) ==
  IF CacheValid(f, sourcePath)
  THEN MapSeq(JsonParse(f[getWarningsCachePath(sourcePath)].data).warnings, warningToDiagnostic)
  ELSE MapSeq(getSvelteWarnings(sourcePath, f[sourcePath].data), warningToDiagnostic)

\* the record a recompiled file writes
cacheData(f, sourcePath) ==
  [mtime |-> f[sourcePath].mtime, warnings |-> getSvelteWarnings(sourcePath, f[sourcePath].data)]

\* the cache writes of the tasks in `writers`, at time t; win[q] is the source
\* whose write to q lands last
WriteWarnings(f, t, writers, win) ==
  [q \in DOMAIN f |->
     IF \E sp \in writers : getWarningsCachePath(sp) = q
     THEN File(t, JsonStringify(cacheData(f, win[q])))
     ELSE f[q]]

WarnWinners(writers) ==
  LET W(q) == {sp \in writers : getWarningsCachePath(sp) = q}
  IN {win \in [WarnPaths -> SourcePaths] :
        \A q \in WarnPaths : IF W(q) = {} THEN win[q] = Resolve(PathAB) ELSE win[q] \in W(q)}

(***************************************************************************)
(* Orchestrator (runner.ts)                                                *)
(***************************************************************************)
WarningFilters == {"none", "by_code", "by_message"}

\* the user's predicate over {code, message}
warningFilter(name, w) ==
  IF name = "by_code" THEN w.code # "state_referenced_locally"
  ELSE IF name = "by_message"
  THEN w.message \notin {<<"unused", "selector">>, <<"Type is not assignable.">>}
  ELSE TRUE

\* a merge that puts the warnings first
MergeDiagnosticsWarningsFirst(o, tc, cw) ==
  LET all == cw \o tc
  IN IF o.warningFilter = "none" THEN all
     ELSE SelectSeq(all, LAMBDA d :
            \/ d.source # "svelte"
            \/ d.svelteCode = ""
            \/ warningFilter(o.warningFilter, [code |-> d.svelteCode, message |-> d.message]))

\* a merge that hands every diagnostic to the user's predicate
MergeDiagnosticsFiltersAll(o, tc, cw) ==
  LET all == tc \o cw
  IN IF o.warningFilter = "none" THEN all
     ELSE SelectSeq(all, LAMBDA d :
            warningFilter(o.warningFilter, [code |-> d.svelteCode, message |-> d.message]))

\* the merge and the user-level suppression of run()
MergeDiagnostics(o, tc, cw) ==
  LET all == tc \o cw
  IN IF o.warningFilter = "none" THEN all
     ELSE SelectSeq(all, LAMBDA d :
            \/ d.source # "svelte"
            \/ d.svelteCode = ""
            \/ warningFilter(o.warningFilter, [code |-> d.svelteCode, message |-> d.message]))


(***************************************************************************)
(* State machine                                                           *)
(***************************************************************************)
NoOpts == [incremental |-> FALSE, raw |-> FALSE, svelteWarnings |-> FALSE, warningFilter |-> "none"]

NoOutput == [kind |-> "none", code |-> 0, text |-> EmptyText]

NoWorkerOutput == [diagnostics |-> <<>>, error |-> ""]

NoResult == [status |-> "none", diagnostics |-> <<>>, errorCount |-> 0, warningCount |-> 0]

NoRun == [n |-> 0, incremental |-> FALSE, edited |-> FALSE, failed |-> {}, succeeded |-> {}]

\* no direct call of the filter or of the remapper is in progress
NoCall ==
  [op |-> "none", diagnostics |-> <<>>, tsxContents |-> <<>>, sourcemaps |-> <<>>,
   returned |-> FALSE, ret |-> <<>>]

\* the project `f` with no run started on it
Idle(f) ==
  /\ fs = f
  /\ clock = 0
  /\ pc = "idle"
  /\ opts = NoOpts
  /\ tcpc = "idle"
  /\ results = <<>>
  /\ converted = {}
  /\ output = NoOutput
  /\ tcOut = NoWorkerOutput
  /\ cwpc = "idle"
  /\ cwOut = NoWorkerOutput
  /\ result = NoResult
  /\ last = NoRun
  /\ changed = {}
  /\ dirs = {}
  /\ tasks = <<>>
  /\ spawns = 0

\* the state before the first run on the project `f`
Fresh(f) == Idle(f) /\ call = NoCall

\* a source file is absent, or holds one of the contents, or exists unreadable;
\* the cache directory is empty
Init ==
  \E src \in [SourcePaths -> {NoFile} \cup {File(0, c) : c \in Contents}
                               \cup {[File(0, "v1") EXCEPT !.readable = FALSE]}] :
    Fresh([q \in AllPaths |-> IF q \in SourcePaths THEN src[q] ELSE NoFile])

\* the files a conversion batch hands to the transpiler
ConversionBatch(f, incremental) ==
  IF incremental THEN toConvert(f) ELSE findSvelteFiles(f)

\* the ConversionResult list of convertAllSvelteFiles / convertChangedFiles
ConversionResults(f, incremental) ==
  IF incremental
  THEN MapSeq(skippedFiles(f), LAMBDA sp : skippedResult(f, sp))
         \o MapSeq(toConvert(f), LAMBDA sp : convertSvelteFileAsync(f, sp))
  ELSE MapSeq(findSvelteFiles(f), LAMBDA sp : convertSvelteFileAsync(f, sp))

\* the file system after convertAllSvelteFiles / convertChangedFiles at time t;
\* only the incremental batch ends with cleanOrphanTsxFiles
ConversionWrites(f, t, incremental, win) ==
  IF incremental
  THEN cleanOrphanTsxFiles(WriteArtifacts(f, t, toConvert(f), win), validTsxPaths(f))
  ELSE WriteArtifacts(f, t, findSvelteFiles(f), win)

\* run(config, options): both workers are started; the compiler worker is
\* skipped in raw mode and when svelteWarnings is off
StartRun(o) ==
  /\ pc \in {"idle", "returned"}
  /\ pc' = "running"
  /\ opts' = o
  /\ tcpc' = "convert"
  /\ cwpc' = IF o.svelteWarnings /\ ~o.raw THEN "collect" ELSE "skipped"
  /\ results' = <<>>
  /\ converted' = {}
  /\ output' = NoOutput
  /\ tcOut' = NoWorkerOutput
  /\ cwOut' = NoWorkerOutput
  /\ result' = NoResult
  /\ UNCHANGED <<fs, clock, last, changed, call, dirs, tasks, spawns>>

\* type-check worker, step 1, full mode: convertAllSvelteFiles
ConvertAll ==
  /\ pc = "running" /\ tcpc = "convert" /\ ~opts.incremental
  /\ \E win \in Winners(fs, findSvelteFiles(fs)) :
       fs' = ConversionWrites(fs, clock, FALSE, win)
  /\ results' = ConversionResults(fs, FALSE)
  /\ converted' = Range(ConversionBatch(fs, FALSE))
  /\ tcpc' = "engine"
  /\ UNCHANGED <<clock, pc, opts, output, tcOut, cwpc, cwOut, result, last, changed, call, dirs, tasks, spawns>>

\* type-check worker, step 1, incremental mode: convertChangedFiles
ConvertChanged ==
  /\ pc = "running" /\ tcpc = "convert" /\ opts.incremental
  /\ \E win \in Winners(fs, toConvert(fs)) :
       fs' = ConversionWrites(fs, clock, TRUE, win)
  /\ results' = ConversionResults(fs, TRUE)
  /\ converted' = Range(ConversionBatch(fs, TRUE))
  /\ tcpc' = "engine"
  /\ UNCHANGED <<clock, pc, opts, output, tcOut, cwpc, cwOut, result, last, changed, call, dirs, tasks, spawns>>

WithSource(d) ==
  [file |-> d.file, line |-> d.line, column |-> d.column, code |-> d.code,
   message |-> d.message, severity |-> d.severity, source |-> "ts"]

\* a worker that filters and maps in raw mode too
TypeCheckOutputIgnoresRaw(f, o, rs, text) ==
  LET diagnostics == MapSeq(parseTscOutput(text), WithSource)
      tsxContents == loadTsxContents(f, extractTsxFiles(diagnostics))
  IN filterNegativeLines(
       mapDiagnostics(filterFalsePositives(diagnostics, tsxContents),
                      buildSourcemapMap(rs), tsxContents))

\* steps 3 to 5 of the type-check worker on the engine's output
TypeCheckOutput(f, o, rs, text) ==
  LET diagnostics == MapSeq(parseTscOutput(text), WithSource)
      tsxContents == loadTsxContents(f, extractTsxFiles(diagnostics))
  IN IF o.raw
     THEN MapSeq(diagnostics, LAMBDA d : Mapped(d, d.file, d.line, d.column, d.message))
     ELSE filterNegativeLines(
            mapDiagnostics(filterFalsePositives(diagnostics, tsxContents),
                           buildSourcemapMap(rs), tsxContents))

\* an engine promise that rejects on every non-zero exit
EngineRejectsOnNonZeroExit(out) == out.kind = "error" \/ out.code # 0

\* the engine promise rejects: spawn error, or non-zero exit with blank output
EngineRejects(out) == out.kind = "error" \/ (out.code # 0 /\ TrimIsEmpty(out.text))

\* the WorkerOutput of the type-check worker for an engine outcome: a rejected
\* engine promise becomes the worker's error
TypeCheckWorkerOutput(f, o, rs, out) ==
  IF EngineRejects(out)
  THEN [diagnostics |-> <<>>, error |-> "tsgo execution failed"]
  ELSE [diagnostics |-> TypeCheckOutput(f, o, rs, out.text), error |-> ""]

\* type-check worker, steps 2 to 5: the engine process fails to spawn, or closes
\* with an exit code and an output; the output is parsed, filtered and mapped
RunEngine(kind, code, text) ==
  /\ pc = "running" /\ tcpc = "engine"
  /\ output' = [kind |-> kind, code |-> code, text |-> text]
  /\ tcOut' = TypeCheckWorkerOutput(fs, opts, results, [kind |-> kind, code |-> code, text |-> text])
  /\ tcpc' = "done"
  /\ UNCHANGED <<fs, clock, pc, opts, results, converted, cwpc, cwOut, result, last, changed, call, dirs, tasks, spawns>>

\* compiler worker, full mode: collectAllSvelteWarnings
CollectAll ==
  /\ pc = "running" /\ cwpc = "collect" /\ ~opts.incremental
  /\ cwOut' = IF \E sp \in Range(findSvelteFiles(fs)) : collectAllTaskFails(fs, sp)
              THEN [diagnostics |-> <<>>, error |-> "read failed"]
              ELSE [diagnostics |-> Flatten(MapSeq(findSvelteFiles(fs),
                                                   LAMBDA sp : collectAllTask(fs, sp))),
                    error |-> ""]
  /\ cwpc' = "done"
  /\ UNCHANGED <<fs, clock, pc, opts, tcpc, results, converted, output, tcOut, result, last, changed, call, dirs, tasks, spawns>>

\* compiler worker, incremental mode: collectChangedSvelteWarnings.  When a
\* task rejects, the writes of the other tasks may or may not have landed.
CollectChanged ==
  /\ pc = "running" /\ cwpc = "collect" /\ opts.incremental
  /\ LET files == findSvelteFiles(fs)
         failing == {sp \in Range(files) : collectChangedTaskFails(fs, sp)}
         recompiled == {sp \in Range(files) : ~CacheValid(fs, sp) /\ CanRead(fs, sp)}
     IN /\ \E writers \in (IF failing = {} THEN {recompiled} ELSE SUBSET recompiled) :
             \E win \in WarnWinners(writers) : fs' = WriteWarnings(fs, clock, writers, win)
        /\ cwOut' = IF failing # {}
                    THEN [diagnostics |-> <<>>, error |-> "read failed"]
                    ELSE [diagnostics |-> Flatten(MapSeq(files, LAMBDA sp : collectChangedTask(fs, sp))),
                          error |-> ""]
  /\ cwpc' = "done"
  /\ UNCHANGED <<clock, pc, opts, tcpc, results, converted, output, tcOut, result, last, changed, call, dirs, tasks, spawns>>

\* run() throws when a worker reported an error
RunFails(tc, cw) == tc.error # "" \/ cw.error # ""

\* a run() that counts before the user predicate is applied
RunResultCountsBeforePredicate(o, tc, cw) ==
  [status |-> "ok",
   diagnostics |-> IF o.raw THEN tc.diagnostics
                   ELSE MergeDiagnostics(o, tc.diagnostics, cw.diagnostics),
   errorCount |-> countDiagnostics(tc.diagnostics \o cw.diagnostics).errorCount,
   warningCount |-> countDiagnostics(tc.diagnostics \o cw.diagnostics).warningCount]

\* the CheckResult of run(): raw diagnostics as they are, or the merged and
\* filtered list, with the counts
RunResult(o, tc, cw) ==
  LET diagnostics == IF o.raw THEN tc.diagnostics
                     ELSE MergeDiagnostics(o, tc.diagnostics, cw.diagnostics)
  IN [status |-> "ok", diagnostics |-> diagnostics,
      errorCount |-> countDiagnostics(diagnostics).errorCount,
      warningCount |-> countDiagnostics(diagnostics).warningCount]

\* both workers have answered: run() returns its CheckResult or throws
Finish ==
  /\ pc = "running" /\ tcpc = "done" /\ cwpc \in {"done", "skipped"}
  /\ result' = IF RunFails(tcOut, cwOut) THEN [NoResult EXCEPT !.status = "error"]
               ELSE RunResult(opts, tcOut, cwOut)
  /\ pc' = "returned"
  /\ UNCHANGED <<fs, clock, opts, tcpc, results, converted, output, tcOut, cwpc, cwOut, last, changed, call, dirs, tasks, spawns>>

RunOptions ==
  [incremental : BOOLEAN, raw : BOOLEAN, svelteWarnings : BOOLEAN, warningFilter : WarningFilters]

Next ==
  \/ \E o \in RunOptions : StartRun(o)
  \/ ConvertAll
  \/ ConvertChanged
  \/ RunEngine("error", 1, EmptyText)
  \/ \E code \in {0, 1}, text \in {EngineReport(fs), EmptyText, BlankText} : RunEngine("close", code, text)
  \/ CollectAll
  \/ CollectChanged
  \/ Finish

\* invocations of run() on a project, each worker advancing on its own
Spec == Init /\ [][Next]_vars

(***************************************************************************)
(* Sessions: the user edits the project between runs of the type-check     *)
(* worker; the engine reports what the generated files on disk contain.    *)
(***************************************************************************)
\* the user saves a component: new content, new modification time
WriteSource(sp, c) ==
  /\ pc = "idle"
  /\ clock < MaxClock
  /\ clock' = clock + 1
  /\ fs' = [fs EXCEPT ![sp] = File(clock + 1, c)]
  /\ changed' = changed \cup {sp}
  /\ UNCHANGED <<pc, opts, tcpc, results, converted, output, tcOut, cwpc, cwOut, result, last, call, dirs, tasks, spawns>>

\* the user touches a component: same content, new modification time
TouchSource(sp) ==
  /\ pc = "idle"
  /\ clock < MaxClock
  /\ fs[sp].exists
  /\ clock' = clock + 1
  /\ fs' = [fs EXCEPT ![sp].mtime = clock + 1]
  /\ changed' = changed \cup {sp}
  /\ UNCHANGED <<pc, opts, tcpc, results, converted, output, tcOut, cwpc, cwOut, result, last, call, dirs, tasks, spawns>>

\* the user deletes a component
DeleteSource(sp) ==
  /\ pc = "idle"
  /\ fs[sp].exists
  /\ fs' = [fs EXCEPT ![sp] = NoFile]
  /\ changed' = changed \cup {sp}
  /\ UNCHANGED <<clock, pc, opts, tcpc, results, converted, output, tcOut, cwpc, cwOut, result, last, call, dirs, tasks, spawns>>

\* one whole run of the type-check worker (worker.ts run): conversion batch,
\* engine, parse, filter, map.  `last` keeps what the previous run did.
TypeCheck(incremental, win) ==
  LET o == [NoOpts EXCEPT !.incremental = incremental]
      f2 == ConversionWrites(fs, clock, incremental, win)
      rs == ConversionResults(fs, incremental)
      out == [kind |-> "close", code |-> 0, text |-> EngineReport(f2)]
  IN /\ pc = "idle"
     /\ last.n < MaxRuns
     /\ opts' = o
     /\ fs' = f2
     /\ results' = rs
     /\ converted' = Range(ConversionBatch(fs, incremental))
     /\ output' = out
     /\ tcOut' = TypeCheckWorkerOutput(f2, o, rs, out)
     /\ last' = [n |-> last.n + 1, incremental |-> opts.incremental, edited |-> changed # {},
                 failed |-> {r.sourcePath : r \in {x \in Range(results) : ~x.success}},
                 succeeded |-> {r.sourcePath : r \in {x \in Range(results) : x.success}}]
     /\ changed' = {}
     /\ UNCHANGED <<clock, pc, tcpc, cwpc, cwOut, result, call, dirs, tasks, spawns>>

NextRuns ==
  \/ \E sp \in SourcePaths, c \in Contents : WriteSource(sp, c)
  \/ \E sp \in SourcePaths : TouchSource(sp)
  \/ \E sp \in SourcePaths : DeleteSource(sp)
  \/ \E incremental \in BOOLEAN :
       \E win \in Winners(fs, ConversionBatch(fs, incremental)) : TypeCheck(incremental, win)

\* the project at the start of a session: the three components present, the
\* cache directory empty; the edits of the session do the rest
InitRuns ==
  Fresh([q \in AllPaths |->
           IF q \in {Resolve(PathAB), Resolve(PathC)} THEN File(0, "v1")
           ELSE IF q = Resolve(PathA_B) THEN File(0, "v2")
           ELSE NoFile])

SpecRuns == InitRuns /\ [][NextRuns]_vars

(***************************************************************************)
(* Worker threads that end without an answer (runner.ts runWorker)         *)
(***************************************************************************)
\* the handlers of runWorker: the promise settles on a message (resolve), on
\* an error event (reject) and on an exit with a non-zero code (reject)
runWorkerSettles(event, code) ==
  event \in {"message", "error"} \/ (event = "exit" /\ code # 0)

\* the position of a worker that ended with the event before posting its message
Stopped(event, code) == IF runWorkerSettles(event, code) THEN "failed" ELSE "exited"

\* a worker thread raises an error, or exits with a code, before it has
\* posted its result message
WorkerStops(typecheck, event, code) ==
  /\ pc = "running"
  /\ IF typecheck
     THEN tcpc \in {"convert", "engine"} /\ tcpc' = Stopped(event, code) /\ cwpc' = cwpc
     ELSE cwpc = "collect" /\ cwpc' = Stopped(event, code) /\ tcpc' = tcpc
  /\ UNCHANGED <<fs, clock, pc, opts, results, converted, output, tcOut, cwOut, result,
                 last, changed, call, dirs, tasks, spawns>>

\* Promise.all rejects as soon as one runWorker promise rejects: run() throws
Reject ==
  /\ pc = "running"
  /\ tcpc = "failed" \/ cwpc = "failed"
  /\ result' = [NoResult EXCEPT !.status = "error"]
  /\ pc' = "returned"
  /\ UNCHANGED <<fs, clock, opts, tcpc, results, converted, output, tcOut, cwpc, cwOut,
                 last, changed, call, dirs, tasks, spawns>>

NextWorkers ==
  \/ Next
  \/ \E typecheck \in BOOLEAN, code \in {0, 1} : WorkerStops(typecheck, "exit", code)
  \/ \E typecheck \in BOOLEAN : WorkerStops(typecheck, "error", 0)
  \/ Reject

\* a worker thread moves to its next stage: the conversion or the engine of
\* the type-check worker ends, the collection of the compiler worker ends
WorkerAdvances(typecheck) ==
  /\ pc = "running"
  /\ IF typecheck
     THEN (tcpc = "convert" /\ tcpc' = "engine") \/ (tcpc = "engine" /\ tcpc' = "done")
     ELSE cwpc = "collect" /\ cwpc' = "done"

\* each worker thread is scheduled while it has work left, and the event loop
\* of the main thread runs every continuation that is ready; nothing obliges
\* a worker to end early
SpecWorkers ==
  /\ InitRuns /\ [][NextWorkers]_vars
  /\ WF_tcpc(WorkerAdvances(TRUE)) /\ WF_cwpc(WorkerAdvances(FALSE))
  /\ WF_vars(Finish) /\ WF_vars(Reject)

(***************************************************************************)
(* Cache sessions: the user edits the project, and a persisted record may  *)
(* be damaged, between whole runs of either worker.                        *)
(***************************************************************************)
\* the WorkerOutput of the compiler worker on the file system f
CollectorOutput(f, incremental) ==
  IF incremental
  THEN IF \E sp \in Range(findSvelteFiles(f)) : collectChangedTaskFails(f, sp)
       THEN [diagnostics |-> <<>>, error |-> "read failed"]
       ELSE [diagnostics |-> Flatten(MapSeq(findSvelteFiles(f), LAMBDA sp : collectChangedTask(f, sp))),
             error |-> ""]
  ELSE IF \E sp \in Range(findSvelteFiles(f)) : collectAllTaskFails(f, sp)
       THEN [diagnostics |-> <<>>, error |-> "read failed"]
       ELSE [diagnostics |-> Flatten(MapSeq(findSvelteFiles(f), LAMBDA sp : collectAllTask(f, sp))),
             error |-> ""]

\* the sources an incremental collection compiles: no valid record, readable
Recompiled(f) == {sp \in Range(findSvelteFiles(f)) : ~CacheValid(f, sp) /\ CanRead(f, sp)}

\* one whole run of the compiler worker (compiler/worker.ts run); only the
\* incremental collection writes records
Collect(incremental, win) ==
  /\ pc = "idle"
  /\ last.n < MaxRuns
  /\ opts' = [NoOpts EXCEPT !.incremental = incremental, !.svelteWarnings = TRUE]
  /\ fs' = IF incremental THEN WriteWarnings(fs, clock, Recompiled(fs), win) ELSE fs
  /\ cwOut' = CollectorOutput(fs, incremental)
  /\ converted' = IF incremental THEN Recompiled(fs) ELSE Range(findSvelteFiles(fs))
  /\ results' = <<>>
  /\ output' = NoOutput
  /\ tcOut' = NoWorkerOutput
  /\ last' = [n |-> last.n + 1, incremental |-> opts.incremental, edited |-> changed # {},
              failed |-> {}, succeeded |-> {}]
  /\ changed' = {}
  /\ UNCHANGED <<clock, pc, tcpc, cwpc, result, call, dirs, tasks, spawns>>

\* a persisted sourcemap or warnings record is damaged: its text no longer parses
CorruptRecord(q) ==
  /\ pc = "idle"
  /\ fs[q].exists
  /\ fs' = [fs EXCEPT ![q].data = <<"{">>]
  /\ changed' = changed \cup {q}
  /\ UNCHANGED <<clock, pc, opts, tcpc, results, converted, output, tcOut, cwpc, cwOut,
                 result, last, call, dirs, tasks, spawns>>

NextCache ==
  \/ \E sp \in SourcePaths, c \in Contents : WriteSource(sp, c)
  \/ \E q \in MapPaths \cup WarnPaths : CorruptRecord(q)
  \/ \E win \in Winners(fs, ConversionBatch(fs, TRUE)) : TypeCheck(TRUE, win)
  \/ \E incremental \in BOOLEAN : \E win \in WarnWinners(Recompiled(fs)) : Collect(incremental, win)

SpecCache == InitRuns /\ [][NextCache]_vars

(***************************************************************************)
(* The type-check worker step by step: the per-file tasks of the           *)
(* conversion fan-out interleave with one another and with the user's      *)
(* edits; the engine and the in-memory stages follow.                      *)
(***************************************************************************)
\* dirname(p)
Dirname(p) == SliceTo(p, LastIndexOf(p, Sep, Len(p)))

\* the directory and the directories above it, down to rootDir
Ancestors(dir) ==
  {SliceTo(dir, i) : i \in {j \in Len(RootDir)..Len(dir) : j = Len(dir) \/ dir[j + 1] = "/"}}

\* mkdir(dir, {recursive: true}): creates what is missing; a directory that
\* exists is no error
mkdir(ds, dir) == [dirs |-> ds \cup Ancestors(dir), error |-> FALSE]

\* a task of the fan-out before its first step
NewTask == [at |-> "read", content |-> "", mkdirError |-> FALSE, wroteTsx |-> FALSE, wroteMap |-> FALSE]

\* a batch whose first task has settled
AnySettled(t) == \E sp \in DOMAIN t : t[sp].at \in {"done", "failed"}

\* Promise.all over the tasks has resolved: every task has settled
AllSettled(t) == \A sp \in DOMAIN t : t[sp].at \in {"done", "failed"}

\* the ConversionResult of a settled task
TaskResult(t, sp) ==
  [sourcePath |-> sp, outputPath |-> getTsxPath(sp),
   map |-> IF t[sp].at = "done" THEN svelte2tsx(t[sp].content).map ELSE EmptyMap,
   success |-> t[sp].at = "done",
   error |-> IF t[sp].at = "done" THEN "" ELSE "conversion failed"]

\* convertAllSvelteFiles / convertChangedFiles up to the fan-out: the cache
\* directories, the classification, the sourcemaps of the skipped files
StartConversion(incremental) ==
  /\ tcpc \in {"idle", "done"}
  /\ last.n < MaxRuns
  /\ last' = [last EXCEPT !.n = last.n + 1]
  /\ opts' = [NoOpts EXCEPT !.incremental = incremental]
  /\ dirs' = mkdir(mkdir(dirs, TsxDirAbs).dirs, Dirname(getMapPath(Resolve(PathC)))).dirs
  /\ tasks' = [sp \in Range(ConversionBatch(fs, incremental)) |-> NewTask]
  /\ results' = IF incremental THEN MapSeq(skippedFiles(fs), LAMBDA sp : skippedResult(fs, sp)) ELSE <<>>
  /\ converted' = Range(ConversionBatch(fs, incremental))
  /\ output' = NoOutput
  /\ tcOut' = NoWorkerOutput
  /\ spawns' = 0
  /\ tcpc' = "convert"
  /\ UNCHANGED <<fs, clock, pc, cwpc, cwOut, result, changed, call>>

\* convertSvelteFileAsync: readFile and svelte2tsx; a failure settles the task
TaskRead(sp) ==
  /\ tcpc = "convert" /\ sp \in DOMAIN tasks /\ tasks[sp].at = "read"
  /\ tasks' = [tasks EXCEPT ![sp] =
                 IF ~CanRead(fs, sp) \/ Svelte2tsxThrows(fs[sp].data)
                 THEN [@ EXCEPT !.at = "failed"]
                 ELSE [@ EXCEPT !.at = "mkdir", !.content = fs[sp].data]]
  /\ UNCHANGED <<fs, clock, pc, opts, tcpc, results, converted, output, tcOut, cwpc, cwOut,
                 result, last, changed, call, dirs, spawns>>

\* convertSvelteFileAsync: mkdir(outputDir, {recursive: true}).catch(() => {})
TaskMkdir(sp) ==
  /\ tcpc = "convert" /\ sp \in DOMAIN tasks /\ tasks[sp].at = "mkdir"
  /\ dirs' = mkdir(dirs, Dirname(getTsxPath(sp))).dirs
  /\ tasks' = [tasks EXCEPT ![sp].at = "write",
                            ![sp].mkdirError = mkdir(dirs, Dirname(getTsxPath(sp))).error]
  /\ UNCHANGED <<fs, clock, pc, opts, tcpc, results, converted, output, tcOut, cwpc, cwOut,
                 result, last, changed, call, spawns>>

\* convertSvelteFileAsync: one of the two writeFile calls lands; the task
\* settles when both have, and fails when the directory of a write is missing
TaskWrite(sp, tsx) ==
  /\ tcpc = "convert" /\ sp \in DOMAIN tasks /\ tasks[sp].at = "write"
  /\ IF tsx THEN ~tasks[sp].wroteTsx ELSE ~tasks[sp].wroteMap
  /\ With(IF tsx THEN getTsxPath(sp) ELSE getMapPath(sp), LAMBDA q :
       IF Dirname(q) \in dirs
       THEN /\ fs' = [fs EXCEPT ![q] =
                       File(clock, IF tsx THEN svelte2tsx(tasks[sp].content).code
                                   ELSE JsonStringify(svelte2tsx(tasks[sp].content).map))]
            /\ tasks' = [tasks EXCEPT
                           ![sp].wroteTsx = @ \/ tsx,
                           ![sp].wroteMap = @ \/ ~tsx,
                           ![sp].at = IF (tsx /\ tasks[sp].wroteMap) \/ (~tsx /\ tasks[sp].wroteTsx)
                                      THEN "done" ELSE "write"]
       ELSE /\ fs' = fs
            /\ tasks' = [tasks EXCEPT ![sp].at = "failed"])
  /\ UNCHANGED <<clock, pc, opts, tcpc, results, converted, output, tcOut, cwpc, cwOut,
                 result, last, changed, call, dirs, spawns>>

\* Promise.all has resolved: the results are collected, and the incremental
\* batch ends with cleanOrphanTsxFiles
FinishConversion ==
  /\ tcpc = "convert" /\ AllSettled(tasks)
  /\ results' = results \o MapSeq(SelectSeq(MapSeq(SveltePaths, Resolve), LAMBDA sp : sp \in DOMAIN tasks),
                                   LAMBDA sp : TaskResult(tasks, sp))
  /\ fs' = IF opts.incremental
           THEN cleanOrphanTsxFiles(fs, {r.outputPath : r \in Range(results)}
                                          \cup {getTsxPath(sp) : sp \in DOMAIN tasks})
           ELSE fs
  /\ tcpc' = "tsconfig"
  /\ UNCHANGED <<clock, pc, opts, converted, output, tcOut, cwpc, cwOut,
                 result, last, changed, call, dirs, tasks, spawns>>

\* generateTsconfig: the project descriptor is written
GenerateTsconfig ==
  /\ tcpc = "tsconfig"
  /\ tcpc' = "spawn"
  /\ UNCHANGED <<fs, clock, pc, opts, results, converted, output, tcOut, cwpc, cwOut,
                 result, last, changed, call, dirs, tasks, spawns>>

\* spawn("node", [tsgoPath, "--noEmit", "-p", tsconfigPath])
SpawnEngine ==
  /\ tcpc = "spawn"
  /\ spawns' = spawns + 1
  /\ tcpc' = "engine"
  /\ UNCHANGED <<fs, clock, pc, opts, results, converted, output, tcOut, cwpc, cwOut,
                 result, last, changed, call, dirs, tasks>>

\* the engine process fails to start, or closes: its whole output is collected
EngineEnds(kind, code, text) ==
  /\ tcpc = "engine"
  /\ output' = [kind |-> kind, code |-> code, text |-> text]
  /\ tcpc' = "parse"
  /\ UNCHANGED <<fs, clock, pc, opts, results, converted, tcOut, cwpc, cwOut,
                 result, last, changed, call, dirs, tasks, spawns>>

\* steps 3 to 5: parse, filter, map; the worker answers
FilterAndMap ==
  /\ tcpc = "parse"
  /\ tcOut' = TypeCheckWorkerOutput(fs, opts, results, output)
  /\ tcpc' = "done"
  /\ UNCHANGED <<fs, clock, pc, opts, results, converted, output, cwpc, cwOut,
                 result, last, changed, call, dirs, tasks, spawns>>

NextSteps ==
  \/ \E sp \in SourcePaths, c \in Contents : WriteSource(sp, c)
  \/ \E incremental \in BOOLEAN : StartConversion(incremental)
  \/ \E sp \in SourcePaths : TaskRead(sp)
  \/ \E sp \in SourcePaths : TaskMkdir(sp)
  \/ \E sp \in SourcePaths, tsx \in BOOLEAN : TaskWrite(sp, tsx)
  \/ FinishConversion
  \/ GenerateTsconfig
  \/ SpawnEngine
  \/ EngineEnds("error", 1, EmptyText)
  \/ EngineEnds("close", 0, EngineReport(fs))
  \/ FilterAndMap

SpecSteps == InitRuns /\ [][NextSteps]_vars

(***************************************************************************)
(* Direct calls of filterFalsePositives and mapDiagnostics, as the unit    *)
(* tests make them: the arguments are fixed at the start, then the call    *)
(* returns.                                                                *)
(***************************************************************************)
\* makeDiag of the unit tests, with the source tag the worker adds
makeDiag(code, message, file, line, column) ==
  [file |-> file, line |-> line, column |-> column, code |-> code,
   message |-> message, severity |-> "error", source |-> "ts"]

\* a generated file of the unit tests
TestTsx == <<"test", ".svelte", ".tsx">>

\* generated text with two ignore regions:
\*   x /*ignore_start*/ y /*ignore_end*/ z
\*   /*ignore_start*/ foo /*ignore_end*/ bar
RegionsCode ==
  <<"x">> \o IGNORE_START \o <<"y">> \o IGNORE_END \o <<"z", "\n">>
    \o IGNORE_START \o <<"foo">> \o IGNORE_END \o <<"bar">>

\* the codes and messages of the diagnostics handed to the filter
TestKinds ==
  { [code |-> 2322, message |-> <<"Type is not assignable.">>],
    [code |-> 2322, message |-> <<"Type '(props) => { ", "must be called with a Snippet", " } & ",
                                  "unique symbol", "' is not assignable to type '", "Snippet",
                                  "<[]>'.">>],
    [code |-> NO_OVERLOAD_MATCHES_CALL, message |-> <<"No overload matches this call.">>],
    [code |-> UNUSED_LABEL, message |-> <<"Unused label.">>],
    [code |-> MODULE_NOT_FOUND,
     message |-> <<"Cannot find module '", "./logo", ".png", "'", " or its type declarations.">>],
    [code |-> MODULE_NOT_FOUND,
     message |-> <<"Cannot find module '", "./logo.missing", ".js", "'", " or its type declarations.">>],
    [code |-> NO_EXPORTED_MEMBER,
     message |-> <<"Module '\"", "*.svelte", "\"' has no exported member 'Graph'.">>],
    [code |-> NO_EXPORTED_MEMBER,
     message |-> <<"Module '\"", "some-lib", "\"' has no exported member 'Foo'.">>] }

\* the content map of a call: no entry for the file, or one of the texts
TestContents(file) ==
  {<<>>} \cup {[x \in {file} |-> text] : text \in {<<>>, RegionsCode, GenCode("v1"), GenCode("v2")}}

\* the positions of the diagnostics of a list: before the first region, inside
\* it, between the regions, inside the second, after it
ListPositions == {<<1, 1>>, <<1, 5>>, <<1, 9>>, <<2, 4>>, <<2, 8>>}

FilterCall(diagnostics, tsxContents) ==
  [op |-> "filterFalsePositives", diagnostics |-> diagnostics, tsxContents |-> tsxContents,
   sourcemaps |-> <<>>, returned |-> FALSE, ret |-> <<>>]

\* the calls of the filter: one diagnostic of every kind at every position on a
\* generated file and on a plain file, and lists of type errors on the text
\* with two regions
FilterCalls ==
  {FilterCall(<<makeDiag(k.code, k.message, file, line, column)>>, tc) :
     k \in TestKinds, file \in {TestTsx, LibTs}, line \in 1..MaxLine, column \in 1..MaxColumn,
     tc \in TestContents(TestTsx) \cup TestContents(LibTs)}
  \cup
  {FilterCall([i \in 1..Len(ps) |->
                 makeDiag(2322, <<"Type is not assignable.">>, TestTsx, ps[i][1], ps[i][2])],
              [x \in {TestTsx} |-> RegionsCode]) :
     ps \in UNION {[1..n -> ListPositions] : n \in 2..MaxDiagnostics}}

\* filterFalsePositives(diagnostics, tsxContents) returns
CallFilter ==
  /\ call.op = "filterFalsePositives" /\ ~call.returned
  /\ call' = [call EXCEPT !.returned = TRUE,
                          !.ret = filterFalsePositives(call.diagnostics, call.tsxContents)]
  /\ UNCHANGED <<fs, clock, pc, opts, tcpc, results, converted, output, tcOut,
                 cwpc, cwOut, result, last, changed, dirs, tasks, spawns>>

\* the generated file of src/c.svelte, as the engine names it
GenFile == Relative(getTsxPath(Resolve(PathC)))

\* generated text with a comment before the store reference:
\*   /*ignore_start*/ $foo = __sveltets_2_store_get(foo) /*ignore_end*/
\*   /* x */ y = $foo
CommentedCode ==
  IGNORE_START \o <<"$", "foo", "=">> \o STORE_GET_PATTERN \o <<"foo", ")">> \o IGNORE_END
    \o <<"\n", "/*", "x", "*/", "y", "=", "$", "foo">>

\* its sourcemap: line 2 column 0 and line 2 column 5 (the store reference)
CommentedMap ==
  [version |-> 3,
   mappings |-> {[gl |-> 2, gc |-> 0, ol |-> 3, oc |-> 0],
                 [gl |-> 2, gc |-> 5, ol |-> 3, oc |-> 7]}]

\* generated text with $foobar before the store reference on its line:
\*   /*ignore_start*/ $foo = __sveltets_2_store_get(foo) /*ignore_end*/
\*   $foobar = $foo
ShadowedCode ==
  IGNORE_START \o <<"$", "foo", "=">> \o STORE_GET_PATTERN \o <<"foo", ")">> \o IGNORE_END
    \o <<"\n", "$", "foo", "bar", "=", "$", "foo">>

\* its sourcemap: line 2 column 0 ($foobar) and line 2 column 4 (the store reference)
ShadowedMap ==
  [version |-> 3,
   mappings |-> {[gl |-> 2, gc |-> 0, ol |-> 3, oc |-> 0],
                 [gl |-> 2, gc |-> 4, ol |-> 3, oc |-> 9]}]

MapCall(diagnostics, sourcemaps, tsxContents) ==
  [op |-> "mapDiagnostics", diagnostics |-> diagnostics, tsxContents |-> tsxContents,
   sourcemaps |-> sourcemaps, returned |-> FALSE, ret |-> <<>>]

\* the calls of the remapper: a store misuse or a type error at every position
\* (line or column 0 included) of a generated file and of a plain file, with
\* and without the text and the sourcemap of the file
MapCallsOn(file) ==
  {MapCall(<<makeDiag(k.code, k.message, file, line, column)>>, sm, tc) :
     k \in {x \in TestKinds : x.message \in {<<"Type is not assignable.">>,
                                              <<"No overload matches this call.">>}},
     line \in 0..MaxLine, column \in 0..MaxColumn,
     sm \in {<<>>} \cup {[x \in {Resolve(file)} |-> m] :
                            m \in {GenMap("v1"), CommentedMap, ShadowedMap, EmptyMap}},
     tc \in {<<>>} \cup {[x \in {file} |-> text] :
                            text \in {GenCode("v1"), CommentedCode, ShadowedCode}}}

\* the generated file is named as the engine names it or by its absolute path
MapCalls == MapCallsOn(GenFile) \cup MapCallsOn(Resolve(GenFile)) \cup MapCallsOn(LibTs)

\* mapDiagnostics(diagnostics, sourcemaps, rootDir, tsxContents) returns
CallMap ==
  /\ call.op = "mapDiagnostics" /\ ~call.returned
  /\ call' = [call EXCEPT !.returned = TRUE,
                          !.ret = mapDiagnostics(call.diagnostics, call.sourcemaps,
                                                 call.tsxContents)]
  /\ UNCHANGED <<fs, clock, pc, opts, tcpc, results, converted, output, tcOut,
                 cwpc, cwOut, result, last, changed, dirs, tasks, spawns>>

InitCalls ==
  \E c \in FilterCalls \cup MapCalls : Idle([q \in AllPaths |-> NoFile]) /\ call = c

NextCalls ==
  \/ CallFilter
  \/ CallMap

SpecCalls == InitCalls /\ [][NextCalls]_vars

(***************************************************************************)
(* Properties                                                              *)
(***************************************************************************)
\* run() has returned a CheckResult
Returned == pc = "returned" /\ result.status = "ok"

\* run() has thrown
Threw == pc = "returned" /\ result.status = "error"

PositivePosition(d) == d.originalLine >= 1 /\ d.originalColumn >= 1

IsTypeCheck == last'.n = last.n + 1

\* the diagnostics of a worker output attributed to the source `sp`
DiagnosticsOf(out, sp) ==
  SelectSeq(out.diagnostics, LAMBDA d : d.originalFile = Relative(sp))

\* C2: a source that was converted in an earlier run (its generated file is on
\* disk) and has been deleted since: after the next run, full or incremental,
\* its generated file and its sourcemap are gone and no diagnostic of the
\* run is attributed to it.
C2_DeletedSourceLeavesNothing ==
  [][IsTypeCheck =>
       \A sp \in SourcePaths :
         (existsSync(fs, getTsxPath(sp)) /\ ~existsSync(fs, sp)) =>
           /\ ~existsSync(fs', getTsxPath(sp))
           /\ ~existsSync(fs', getMapPath(sp))
           /\ DiagnosticsOf(tcOut', sp) = <<>>]_vars

\* the generated file and the sourcemap of the sources present at a run
ValidArtifacts(f) ==
  {getTsxPath(sp) : sp \in Range(findSvelteFiles(f))}
    \cup {getMapPath(sp) : sp \in Range(findSvelteFiles(f))}

\* C3: an incremental run's orphan cleanup removes neither the generated file
\* nor the sourcemap of a source file present in the run.
C3_CleanupKeepsValidArtifacts ==
  [][(IsTypeCheck /\ opts'.incremental) =>
       \A q \in ValidArtifacts(fs) : existsSync(fs, q) => existsSync(fs', q)]_vars

\* the latest run has a successful result for every source of the project
AllConverted ==
  /\ results # <<>>
  /\ \A i \in 1..Len(results) : results[i].success
  /\ {results[i].sourcePath : i \in 1..Len(results)} = Range(findSvelteFiles(fs))

\* C4: after a run that converted every source file successfully, and one
\* modification of one source file, the next incremental run hands exactly
\* that file to the transpiler; a file is skipped iff its generated file and
\* its sourcemap exist and the generated file is not older than the source.
C4_ExactlyTheTouchedFile ==
  [][(IsTypeCheck /\ opts'.incremental) =>
       /\ (/\ AllConverted
           /\ Cardinality(changed) = 1
           /\ changed \subseteq Range(findSvelteFiles(fs))) => converted' = changed
       /\ \A sp \in Range(findSvelteFiles(fs)) : sp \notin converted' <=> IsSkipped(fs, sp)]_vars

\* the generated files and sourcemaps of the cache directory
CacheArtifacts == TsxPaths \cup MapPaths

\* C5: two consecutive incremental runs with no source change in between (the
\* first one having converted every source): the second hands no file to the
\* transpiler, leaves every generated file and sourcemap as it was, and
\* returns the same set of mapped diagnostics.
C5_SecondRunIdempotent ==
  [][(/\ IsTypeCheck /\ opts'.incremental
      /\ last.n >= 1 /\ opts.incremental /\ AllConverted
      /\ changed = {}) =>
       /\ converted' = {}
       /\ \A q \in CacheArtifacts : fs'[q] = fs[q]
       /\ Range(tcOut'.diagnostics) = Range(tcOut.diagnostics)]_vars

\* C6: a source whose ConversionResult in a run has success = FALSE has no
\* diagnostic in the run's type-check output, whatever the cache held before.
C6_FailedConversionHasNoDiagnostics ==
  \A i \in 1..Len(results) :
    ~results[i].success => DiagnosticsOf(tcOut, results[i].sourcePath) = <<>>

\* the conversion step of the run in progress has finished
BatchDone == tcpc \in {"engine", "done"}

\* the transpiler or the read fails for this source
ConversionFails(sp) == ~CanRead(fs, sp) \/ Svelte2tsxThrows(fs[sp].data)

ResultOf(sp) == CHOOSE r \in Range(results) : r.sourcePath = sp

\* C7: a conversion batch in which a file fails still returns exactly one
\* result per source file; the failing file has success = FALSE and an error
\* message; every other file of the batch has success = TRUE, its own
\* sourcemap in the result, and its generated file and sourcemap file written
\* by this batch.
C7_BatchSurvivesFailure ==
  BatchDone =>
    /\ {results[i].sourcePath : i \in 1..Len(results)} = Range(findSvelteFiles(fs))
    /\ Len(results) = Len(findSvelteFiles(fs))
    /\ \A sp \in converted :
         IF ConversionFails(sp)
         THEN ~ResultOf(sp).success /\ ResultOf(sp).error # ""
         ELSE /\ ResultOf(sp).success
              /\ ResultOf(sp).map = svelte2tsx(fs[sp].data).map
              /\ fs[getTsxPath(sp)] = File(clock, svelte2tsx(fs[sp].data).code)
              /\ \E w \in converted :
                   /\ getMapPath(w) = getMapPath(sp) /\ ~ConversionFails(w)
                   /\ fs[getMapPath(sp)] = File(clock, JsonStringify(svelte2tsx(fs[w].data).map))

\* a batch with a failing conversion and a successful one has finished
C7_Witness ==
  /\ BatchDone
  /\ \E sp \in converted : ConversionFails(sp)
  /\ \E sp \in converted : ~ConversionFails(sp)

\* the type-check worker has answered
EngineDone == tcpc = "done"

\* the number of output lines in the diagnostic format
DiagnosticLines(text) == Cardinality({i \in 1..Len(text) : MatchesPattern(text[i])})

\* the run failed as a whole: the worker reports an error and no diagnostics,
\* and run() throws
HardFailure ==
  /\ tcOut.error # "" /\ tcOut.diagnostics = <<>>
  /\ pc = "returned" => (Threw /\ result.diagnostics = <<>>)

\* the engine output was parsed: no worker error, and in raw mode one
\* diagnostic per output line in the diagnostic format
Parsed ==
  /\ tcOut.error = ""
  /\ opts.raw => Len(tcOut.diagnostics) = DiagnosticLines(output.text)

\* C8, as stated: a spawn failure or a non-zero exit with empty output is a
\* hard failure; any non-empty output is parsed whatever the exit code.
C8_NonEmptyOutputIsParsed ==
  EngineDone =>
    /\ (output.kind = "error" \/ (output.code # 0 /\ output.text = EmptyText)) => HardFailure
    /\ (output.kind = "close" /\ output.text # EmptyText) => Parsed

\* C8, amended: a spawn failure or a non-zero exit with empty or
\* whitespace-only output is a hard failure; every other output is parsed
\* whatever the exit code.
C8_NonBlankOutputIsParsed ==
  EngineDone =>
    /\ (output.kind = "error" \/ (output.code # 0 /\ TrimIsEmpty(output.text))) => HardFailure
    /\ (output.kind = "close" /\ ~(output.code # 0 /\ TrimIsEmpty(output.text))) => Parsed

\* run() threw after the engine exited non-zero with whitespace-only output
C8_Witness ==
  /\ Threw
  /\ output.kind = "close" /\ output.code # 0
  /\ output.text # EmptyText /\ TrimIsEmpty(output.text)

\* the compiler worker has answered
CollectDone == cwpc = "done"

\* collecting the warnings of this source fails: the file cannot be read, or
\* the compiler throws
CollectFails(sp) == ~CanRead(fs, sp) \/ CompileThrows(fs[sp].data)

\* C9: a failure while collecting the warnings of one source file is absorbed:
\* the compiler worker reports no error, the file has no warnings, the
\* warnings of every other file are collected (compared in full mode, where
\* every file is compiled), and run() does not throw unless the type-check
\* worker failed.
C9_CollectFailureAbsorbed ==
  CollectDone =>
    /\ cwOut.error = ""
    /\ \A sp \in Range(findSvelteFiles(fs)) :
         /\ CollectFails(sp) => DiagnosticsOf(cwOut, sp) = <<>>
         /\ (~CollectFails(sp) /\ ~opts.incremental) =>
              DiagnosticsOf(cwOut, sp)
                = MapSeq(CompileWarnings(sp, fs[sp].data), warningToDiagnostic)
    /\ (pc = "returned" /\ tcOut.error = "") => Returned

\* what the user's predicate answers for a diagnostic
Accepts(d) == warningFilter(opts.warningFilter, [code |-> d.svelteCode, message |-> d.message])

\* C10: in the CheckResult, the type-checker diagnostics are those that reached
\* the merge, whatever the predicate answers, and a Warning Collector
\* diagnostic is present iff the predicate accepts {code, message}.
C10_PredicateOnlyOnWarnings ==
  Returned =>
    /\ SelectSeq(result.diagnostics, LAMBDA d : d.source # "svelte") = tcOut.diagnostics
    /\ SelectSeq(result.diagnostics, LAMBDA d : d.source = "svelte")
         = SelectSeq(cwOut.diagnostics, Accepts)

\* a run returned with a predicate that rejects one warning, accepts another
\* and would reject a type-checker diagnostic that is in the result
C10_Witness ==
  /\ Returned /\ opts.warningFilter # "none"
  /\ \E d \in Range(cwOut.diagnostics) : ~Accepts(d)
  /\ \E d \in Range(cwOut.diagnostics) : Accepts(d)
  /\ \E d \in Range(result.diagnostics) : d.source = "ts" /\ ~Accepts(d)

\* the lines of the engine output that are in the diagnostic format, in order
RawLines == SelectSeq(output.text, MatchesPattern)

\* C11: in raw mode the compiler worker is never started and the CheckResult
\* holds exactly one diagnostic per diagnostic line of the engine output, in
\* order, with the fields of the line and with originalFile, originalLine and
\* originalColumn equal to the generated file, line and column: nothing is
\* filtered, remapped or handed to the user predicate.
C11_RawModeVerbatim ==
  /\ (pc \in {"running", "returned"} /\ opts.raw) => (cwpc = "skipped" /\ cwOut = NoWorkerOutput)
  /\ (Returned /\ opts.raw) =>
       /\ Len(result.diagnostics) = Len(RawLines)
       /\ \A i \in 1..Len(RawLines) :
            /\ result.diagnostics[i].file = RawLines[i][1]
            /\ result.diagnostics[i].line = RawLines[i][3]
            /\ result.diagnostics[i].column = RawLines[i][5]
            /\ result.diagnostics[i].severity = RawLines[i][8]
            /\ result.diagnostics[i].code = RawLines[i][10]
            /\ result.diagnostics[i].message = RawLines[i][12]
            /\ result.diagnostics[i].originalFile = RawLines[i][1]
            /\ result.diagnostics[i].originalLine = RawLines[i][3]
            /\ result.diagnostics[i].originalColumn = RawLines[i][5]

\* a raw run with warnings requested and a predicate returned diagnostics that
\* the filter removes (an unused label), that the final pass of the remapper
\* drops (line 0) and that the predicate rejects, on a generated file whose
\* sourcemap was built in the run
C11_Witness ==
  /\ Returned /\ opts.raw /\ opts.svelteWarnings /\ opts.warningFilter # "none"
  /\ \E d \in Range(result.diagnostics) : d.code = UNUSED_LABEL
  /\ \E d \in Range(result.diagnostics) :
       /\ d.line = 0 /\ ~Accepts(d)
       /\ \E r \in Range(results) : r.success /\ r.outputPath = Resolve(d.file)

\* C12: in every CheckResult errorCount is the number of diagnostics of the
\* final list with severity "error" and warningCount the number of all the
\* others, so the two add up to the length of the list.
C12_CountsPartitionFinalList ==
  Returned =>
    /\ result.errorCount
         = Cardinality({i \in 1..Len(result.diagnostics) : result.diagnostics[i].severity = "error"})
    /\ result.warningCount
         = Cardinality({i \in 1..Len(result.diagnostics) : result.diagnostics[i].severity # "error"})
    /\ result.errorCount + result.warningCount = Len(result.diagnostics)

\* a normal run returned errors and warnings after the filter removed a
\* type-checker diagnostic and the predicate rejected a compiler warning
C12_Witness ==
  /\ Returned /\ ~opts.raw
  /\ result.errorCount > 0 /\ result.warningCount > 0
  /\ Len(tcOut.diagnostics) < Len(RawLines)
  /\ \E d \in Range(cwOut.diagnostics) : d \notin Range(result.diagnostics)

\* a direct call of the filter has returned
FilterReturned == call.op = "filterFalsePositives" /\ call.returned

\* the call has no content, or empty content, for the diagnostic's file
Uninformed(d) == d.file \notin DOMAIN call.tsxContents \/ call.tsxContents[d.file] = <<>>

\* the diagnostic is one that a message-pattern rule names: a module not
\* found with an asset extension, or a missing export of '*.svelte'
AssetModule(d) ==
  /\ d.code = 2307
  /\ \E i \in 1..(Len(d.message) - 2) :
       /\ d.message[i] = "Cannot find module '"
       /\ d.message[i + 2] \in {".png", ".svg", ".jpg", ".avif"}

SvelteExport(d) == d.code = 2614 /\ \E i \in 1..Len(d.message) : d.message[i] = "*.svelte"

\* C13: a diagnostic whose file has no content, or empty content, in the
\* call is never removed by the ignore-region rule or by a code-specific
\* structural rule: every such diagnostic that no message-pattern rule names
\* is in the result.
C13_NoContentNeverSuppresses ==
  FilterReturned =>
    \A d \in Range(call.diagnostics) :
      (Uninformed(d) /\ ~AssetModule(d) /\ ~SvelteExport(d)) => d \in Range(call.ret)

\* the filter kept an unused-label diagnostic on a file without content while
\* the call held the text of another file
C13_Witness ==
  /\ FilterReturned
  /\ \E d \in Range(call.ret) : d.code = UNUSED_LABEL /\ d.file \notin DOMAIN call.tsxContents
  /\ \E file \in DOMAIN call.tsxContents : call.tsxContents[file] = RegionsCode

\* C14: the message-pattern rules do not depend on content: a TS2307
\* diagnostic naming a module with an asset extension and a TS2614 diagnostic
\* naming '*.svelte' are removed for every file, also one with no content in
\* the call; the same codes naming another module are kept when the file has
\* no content.
C14_MessageRulesNeedNoContent ==
  FilterReturned =>
    \A d \in Range(call.diagnostics) :
      /\ (AssetModule(d) \/ SvelteExport(d)) => d \notin Range(call.ret)
      /\ (d.code \in {2307, 2614} /\ ~AssetModule(d) /\ ~SvelteExport(d) /\ Uninformed(d))
           => d \in Range(call.ret)

\* the 1-based index in the text of the token at a line and column, 0 when the
\* text has no token there
TokenAt(text, line, column) ==
  LET at == {i \in 1..Len(text) :
               /\ text[i] # "\n"
               /\ Cardinality({k \in 1..(i - 1) : text[k] = "\n"}) = line - 1
               /\ Cardinality({k \in 1..i : \A j \in k..i : text[j] # "\n"}) = column}
  IN IF at = {} THEN 0 ELSE CHOOSE i \in at : TRUE

\* the indexes at which a sentinel starts in the text
SentinelAt(text, sentinel) ==
  {i \in 1..Len(text) : i + Len(sentinel) - 1 <= Len(text)
                         /\ SubSeq(text, i, i + Len(sentinel) - 1) = sentinel}

\* the token at index i lies between a start sentinel and the end sentinel
\* that closes it
InsideRegion(text, i) ==
  \E s \in SentinelAt(text, IGNORE_START) :
    /\ s + Len(IGNORE_START) <= i
    /\ \A e \in SentinelAt(text, IGNORE_END) : e < s \/ i < e

\* the token at index i lies before every start sentinel, or after the end
\* sentinel of every region that starts before it
OutsideRegions(text, i) ==
  \A s \in SentinelAt(text, IGNORE_START) :
    \/ i < s
    \/ \E e \in SentinelAt(text, IGNORE_END) : s < e /\ e + Len(IGNORE_END) <= i

\* a plain type error on a token of the text the call holds for its file
TypeErrorOnToken(d) ==
  /\ d.code = 2322 /\ d.message = <<"Type is not assignable.">>
  /\ ~Uninformed(d)
  /\ TokenAt(call.tsxContents[d.file], d.line, d.column) # 0

InsideAnyRegion(d) ==
  InsideRegion(call.tsxContents[d.file], TokenAt(call.tsxContents[d.file], d.line, d.column))

OutsideAllRegions(d) ==
  OutsideRegions(call.tsxContents[d.file], TokenAt(call.tsxContents[d.file], d.line, d.column))

\* C15: a diagnostic that is not a store misuse and is subject to no other
\* rule is removed when its position lies inside an ignore region and kept
\* when it lies outside every region (so also right before a start sentinel and
\* right after an end sentinel); a list of such diagnostics comes back as the
\* diagnostics outside the regions, in their input order.
C15_RemovedIffInsideRegion ==
  FilterReturned =>
    /\ \A d \in Range(call.diagnostics) :
         TypeErrorOnToken(d) =>
           /\ InsideAnyRegion(d) => d \notin Range(call.ret)
           /\ OutsideAllRegions(d) => d \in Range(call.ret)
    /\ (\A d \in Range(call.diagnostics) :
          TypeErrorOnToken(d) /\ (InsideAnyRegion(d) \/ OutsideAllRegions(d)))
         => call.ret = SelectSeq(call.diagnostics, OutsideAllRegions)

\* the filter returned "between" and "after" for the four diagnostics placed
\* inside the first region, between the regions, inside the second and after it
C15_Witness ==
  /\ FilterReturned
  /\ Len(call.diagnostics) = 4
  /\ call.tsxContents = [x \in {TestTsx} |-> RegionsCode]
  /\ [i \in 1..4 |-> <<call.diagnostics[i].line, call.diagnostics[i].column>>]
       = << <<1, 5>>, <<1, 9>>, <<2, 4>>, <<2, 8>> >>
  /\ call.ret = <<call.diagnostics[2], call.diagnostics[4]>>

\* the tokens right before the diagnostic's token are the getter-wrapper call
AtGetterArgument(d) ==
  LET text == call.tsxContents[d.file]
      i == TokenAt(text, d.line, d.column)
  IN i > Len(STORE_GET_PATTERN) /\ SubSeq(text, i - Len(STORE_GET_PATTERN), i - 1) = STORE_GET_PATTERN

\* C16: a diagnostic inside an ignore region is kept iff it is a TS2769
\* diagnostic whose position is the argument of a getter-wrapper call; every
\* other diagnostic inside a region, a TS2769 elsewhere included, is removed.
C16_StoreMisuseKeptAtGetterArgument ==
  FilterReturned =>
    \A d \in Range(call.diagnostics) :
      (/\ ~Uninformed(d)
       /\ TokenAt(call.tsxContents[d.file], d.line, d.column) # 0
       /\ InsideAnyRegion(d))
      => (d \in Range(call.ret) <=> (d.code = 2769 /\ AtGetterArgument(d)))

\* the filter kept a TS2769 diagnostic at the argument of the getter call
\* inside an ignore region
C16_Witness ==
  /\ FilterReturned
  /\ \E d \in Range(call.ret) :
       d.code = 2769 /\ ~Uninformed(d) /\ InsideAnyRegion(d) /\ AtGetterArgument(d)

\* the message reports a Snippet type mismatch that involves 'unique symbol'
SnippetMismatch(d) ==
  /\ \E i \in 1..Len(d.message) : d.message[i] = "unique symbol"
  /\ \E i \in 1..Len(d.message) : d.message[i] = "Snippet"

\* C17: a TS2322 diagnostic on a file ending in .svelte.tsx whose message
\* reports a Snippet type mismatch involving 'unique symbol' is removed; a
\* TS2322 diagnostic without that message, or on another file, is kept (when
\* no ignore region covers it).
C17_SnippetMismatchRemoved ==
  FilterReturned =>
    \A d \in Range(call.diagnostics) :
      d.code = 2322 =>
        /\ (SnippetMismatch(d) /\ EndsWith(d.file, <<".svelte", ".tsx">>) /\ ~Uninformed(d))
             => d \notin Range(call.ret)
        /\ ((~SnippetMismatch(d) \/ ~EndsWith(d.file, <<".svelte", ".tsx">>))
              /\ (Uninformed(d)
                    \/ (TokenAt(call.tsxContents[d.file], d.line, d.column) # 0
                          /\ OutsideAllRegions(d))))
             => d \in Range(call.ret)

\* a direct call of the remapper has returned
MapReturned == call.op = "mapDiagnostics" /\ call.returned

\* the diagnostic is on a generated file
OnGenerated(d) == EndsWith(d.file, <<".svelte", ".tsx">>)

\* the call has a sourcemap for the diagnostic's file
HasSourcemap(d) == Resolve(d.file) \in DOMAIN call.sourcemaps

\* the diagnostic as the remapper emits it at an original place
Emitted(d, file, line, column) ==
  [file |-> d.file, line |-> d.line, column |-> d.column, code |-> d.code,
   message |-> d.message, severity |-> d.severity, source |-> d.source,
   originalFile |-> file, originalLine |-> line, originalColumn |-> column,
   svelteCode |-> ""]

\* C18: mapDiagnostics does not drop a diagnostic on a generated file for
\* which it has no sourcemap: it emits it with the original source path and
\* the generated line and column; a diagnostic on a file that is not generated
\* passes through with its own file, line and column.
C18_NoSourcemapRelabels ==
  MapReturned =>
    \A i \in 1..Len(call.diagnostics) :
      LET d == call.diagnostics[i]
      IN /\ (OnGenerated(d) /\ ~HasSourcemap(d))
              => call.ret = <<Emitted(d, PathC, d.line, d.column)>>
         /\ ~OnGenerated(d) => call.ret = <<Emitted(d, d.file, d.line, d.column)>>

\* the remapper emitted, at src/c.svelte and the generated position, a
\* diagnostic on the generated file of src/c.svelte without a sourcemap
C18_Witness ==
  /\ MapReturned
  /\ \E d \in Range(call.diagnostics) :
       /\ OnGenerated(d) /\ ~HasSourcemap(d) /\ d.line = 2 /\ d.column = 4
       /\ call.ret = <<Emitted(d, PathC, 2, 4)>>

\* the sourcemap has no original position for the generated position, or the
\* query for it throws
NoOriginal(map, line, column) ==
  \/ line < 1 \/ column < 0
  \/ ~\E m \in map.mappings : m.gl = line /\ m.gc <= column

\* the mapping of the diagnostic fails in the call
MappingFails(d) ==
  /\ OnGenerated(d) /\ HasSourcemap(d)
  /\ NoOriginal(call.sourcemaps[Resolve(d.file)], d.line, d.column - 1)

\* C19: a diagnostic whose sourcemap exists but has no original position for
\* it (or whose query throws) is dropped and the call returns normally; the
\* only such diagnostics in the result are TS2769 diagnostics, emitted with
\* the rescue message at an original position of the sourcemap.
C19_FailedMappingDropped ==
  MapReturned =>
    \A i \in 1..Len(call.diagnostics) :
      LET d == call.diagnostics[i]
      IN MappingFails(d) =>
           \/ call.ret = <<>>
           \/ /\ d.code = 2769 /\ d.file \in DOMAIN call.tsxContents
              /\ Len(call.ret) = 1
              /\ call.ret[1].message # d.message
              /\ \E m \in call.sourcemaps[Resolve(d.file)].mappings :
                   /\ call.ret[1].originalLine = m.ol
                   /\ call.ret[1].originalColumn = m.oc + 1

\* the remapper dropped a type error on a line of the generated file that
\* the sourcemap does not cover
C19_Witness ==
  /\ MapReturned /\ call.ret = <<>>
  /\ \E d \in Range(call.diagnostics) :
       /\ MappingFails(d) /\ d.code = 2322 /\ d.line = 1 /\ d.column = 4
       /\ call.sourcemaps[Resolve(d.file)] = GenMap("v1")

\* the 1-based line and column of the token at index i of the text
LineOf(text, i) == 1 + Cardinality({k \in 1..(i - 1) : text[k] = "\n"})

ColumnOf(text, i) == Cardinality({k \in 1..i : \A j \in k..i : text[j] # "\n"})

\* the indexes after line `line` at which $name stands outside a comment and
\* the sourcemap has an original position for it
MappedReferences(text, map, name, line) ==
  {i \in 1..(Len(text) - 1) :
     /\ text[i] = "$" /\ text[i + 1] = name
     /\ (i + 2 > Len(text) \/ text[i + 2] \notin WordTokens)
     /\ LineOf(text, i) > line
     /\ ~\E s \in 1..(i - 1) : text[s] = "/*" /\ \A e \in (s + 1)..(i - 1) : text[e] # "*/"
     /\ ~NoOriginal(map, LineOf(text, i), ColumnOf(text, i) - 1)}

\* C20: for a TS2769 diagnostic whose mapping fails, at the argument `foo` of
\* a getter-wrapper call on line L, when $foo stands on a later line at a
\* place the sourcemap maps, the remapper emits one diagnostic at the
\* sourcemap image of the line and column of the first such $foo (column
\* 1-based), with a message made of the rescue explanation naming foo and of
\* the original message.
C20_RescueAtStoreReference ==
  MapReturned =>
    \A n \in 1..Len(call.diagnostics) :
      LET d == call.diagnostics[n]
          text == call.tsxContents[d.file]
          map == call.sourcemaps[Resolve(d.file)]
          name == text[TokenAt(text, d.line, d.column)]
          refs == MappedReferences(text, map, name, d.line)
          i == CHOOSE x \in refs : \A y \in refs : x <= y
          image == originalPositionFor(map, LineOf(text, i), ColumnOf(text, i) - 1)
      IN (/\ d.code = 2769 /\ MappingFails(d)
          /\ d.file \in DOMAIN call.tsxContents
          /\ TokenAt(text, d.line, d.column) # 0
          /\ AtGetterArgument(d)
          /\ name \in WordTokens
          /\ refs # {})
         => /\ Len(call.ret) = 1
            /\ call.ret[1].originalLine = image.line
            /\ call.ret[1].originalColumn = image.column + 1
            /\ \E k \in 1..Len(call.ret[1].message) :
                 /\ SubSeq(call.ret[1].message, k + 1, Len(call.ret[1].message)) = d.message
                 /\ \E j \in 1..k : call.ret[1].message[j] = name
                 /\ \E j \in 1..k : call.ret[1].message[j] = "Cannot use '"

\* the segment of the call's sourcemap at exactly the diagnostic's position
SegmentsAt(d) ==
  {m \in call.sourcemaps[Resolve(d.file)].mappings : m.gl = d.line /\ m.gc = d.column - 1}

\* C21: for a diagnostic on a generated file at (line, 1-based column c) whose
\* sourcemap has a segment from generated (line, 0-based column c - 1) to
\* original (l, 0-based column k), mapDiagnostics returns exactly that
\* diagnostic with originalLine l, originalColumn k + 1 and the source path of
\* the generated file as originalFile.
C21_RemapRoundTrip ==
  MapReturned =>
    \A i \in 1..Len(call.diagnostics) :
      LET d == call.diagnostics[i]
      IN (OnGenerated(d) /\ HasSourcemap(d)) =>
           \A m \in SegmentsAt(d) : call.ret = <<Emitted(d, PathC, m.ol, m.oc + 1)>>

\* the remapper took a diagnostic at the store reference of line 2 (generated
\* column 5, 0-based) to original 3:8, for the generated file named by its
\* relative path
C21_Witness ==
  /\ MapReturned
  /\ \E d \in Range(call.diagnostics) :
       /\ d.file = GenFile /\ d.line = 2 /\ d.column = 6
       /\ HasSourcemap(d)
       /\ [gl |-> 2, gc |-> 5, ol |-> 3, oc |-> 7] \in SegmentsAt(d)
       /\ call.ret = <<Emitted(d, PathC, 3, 8)>>

\* the latest run was an incremental run of the compiler worker that returned
\* its warnings, and nothing was edited or damaged since
CollectedIncrementally ==
  /\ last.n > 0 /\ output = NoOutput
  /\ opts.incremental /\ opts.svelteWarnings
  /\ cwOut.error = "" /\ changed = {}

\* the warnings a compilation of every present source yields, in file order
FreshWarnings(f) == Flatten(MapSeq(findSvelteFiles(f), LAMBDA sp : collectAllTask(f, sp)))

\* C22: an incremental collection returns, for every source, the warnings of
\* the source's current content (those of the new content after a
\* modification, the same ones as before for an unmodified file), and leaves
\* for every source a record that parses and is not older than the source.
C22_IncrementalWarningsFollowSource ==
  CollectedIncrementally =>
    /\ cwOut.diagnostics = FreshWarnings(fs)
    /\ \A sp \in Range(findSvelteFiles(fs)) : CacheValid(fs, sp)

\* the step is one whole incremental run of the type-check worker
IncrementalTypeCheckStep ==
  last'.n = last.n + 1 /\ output'.kind = "close" /\ opts'.incremental

\* the step is one whole incremental run of the compiler worker
IncrementalCollectStep ==
  last'.n = last.n + 1 /\ output' = NoOutput /\ opts'.incremental

\* the file at q exists and its text does not parse
Unparseable(f, q) == existsSync(f, q) /\ ~JsonParses(f[q].data)

\* C23: an incremental run that finds the stored sourcemap, or the stored
\* warnings record, of a readable source unparseable processes that source
\* again in the same run, leaves a record that parses, and does not fail.
C23_UnparseableRecordIsCacheMiss ==
  [][/\ IncrementalTypeCheckStep =>
          \A sp \in Range(findSvelteFiles(fs)) :
            (Unparseable(fs, getMapPath(sp)) /\ ~Svelte2tsxThrows(fs[sp].data))
              => /\ sp \in converted'
                 /\ loadSourcemapOk(fs', getMapPath(sp))
                 /\ tcOut'.error = ""
     /\ IncrementalCollectStep =>
          \A sp \in Range(findSvelteFiles(fs)) :
            Unparseable(fs, getWarningsCachePath(sp))
              => /\ sp \in converted'
                 /\ ~Unparseable(fs', getWarningsCachePath(sp))
                 /\ cwOut'.error = ""]_vars

\* the fan-out of the first run, on the untouched project and an empty cache,
\* has settled
FirstFanOutSettled ==
  /\ tcpc = "convert" /\ last.n = 1 /\ clock = 0
  /\ DOMAIN tasks = SourcePaths
  /\ AllSettled(tasks)

\* the task of sp succeeded and its generated file and its sourcemap are on disk
ArtifactOnDisk(sp) ==
  /\ tasks[sp].at = "done"
  /\ existsSync(fs, getTsxPath(sp))
  /\ fs[getTsxPath(sp)].data = svelte2tsx(fs[sp].data).code
  /\ loadSourcemapOk(fs, getMapPath(sp))
  /\ loadSourcemap(fs, getMapPath(sp)) = svelte2tsx(fs[sp].data).map

\* C24: when the tasks of N distinct sources, started on an empty cache
\* directory, have all settled, in whatever order their directory creations
\* and writes were interleaved, no directory creation has failed and every
\* source has its artifact: its generated file and its sourcemap.
C24_FanOutProducesEveryArtifact ==
  FirstFanOutSettled =>
    \A sp \in SourcePaths : ~tasks[sp].mkdirError /\ ArtifactOnDisk(sp)

\* every per-file conversion of the run has completed and its result is collected
ConversionsCompleted ==
  /\ \A sp \in DOMAIN tasks : tasks[sp].at \in {"done", "failed"}
  /\ \A sp \in DOMAIN tasks : \E i \in 1..Len(results) : results[i].sourcePath = sp

\* C25: in a run of the type-check worker the engine is spawned at most once,
\* and only when every per-file conversion of the run has completed and the
\* project descriptor is written; the worker answers only after the engine
\* process has ended, with exactly one engine spawned, and its diagnostics are
\* those of the whole collected output.
C25_StagesAreBarriers ==
  /\ spawns <= 1
  /\ spawns = 1 => (tcpc \in {"engine", "parse", "done"} /\ ConversionsCompleted)
  /\ tcpc \in {"idle", "convert", "tsconfig", "spawn"} => (spawns = 0 /\ output = NoOutput)
  /\ tcpc \in {"idle", "convert", "tsconfig", "spawn", "engine", "parse"} => tcOut = NoWorkerOutput
  /\ tcpc \in {"parse", "done"} => output.kind \in {"close", "error"}
  /\ tcpc = "done" =>
       /\ spawns = 1
       /\ tcOut = TypeCheckWorkerOutput(fs, opts, results, output)

\* a run converted three files, spawned the engine once, collected its report
\* and answered with mapped diagnostics
C25_Witness ==
  /\ tcpc = "done" /\ spawns = 1
  /\ Cardinality(DOMAIN tasks) = 3
  /\ \A sp \in DOMAIN tasks : tasks[sp].at = "done"
  /\ output.kind = "close" /\ output.text # EmptyText
  /\ tcOut.error = "" /\ tcOut.diagnostics # <<>>

\* run() returned the merged list of a non-raw run
MergedReturned == pc = "returned" /\ result.status = "ok" /\ ~opts.raw

\* the cache files of the conversion pipeline, and those of the warning pipeline
ConversionFiles == TsxPaths \cup MapPaths

\* C26: the two pipelines share no data.  A step of one worker leaves the
\* other worker's output and cache files as they are, whichever worker is
\* ahead; the type-check worker's answer is a function of its own conversion
\* results and engine output, and a full collection's answer is the warnings
\* of the sources.  run() returns only when both have answered, and the merged
\* list of a non-raw run is the type-check worker's diagnostics followed by
\* the collector's warnings that the user's predicate keeps.
C26_PipelinesIndependent ==
  /\ [](/\ MergedReturned => (tcpc = "done" /\ cwpc \in {"done", "skipped"})
        /\ MergedReturned =>
             /\ SelectSeq(result.diagnostics, LAMBDA d : d.source = "ts") = tcOut.diagnostics
             /\ \E k \in 0..Len(result.diagnostics) :
                  /\ SubSeq(result.diagnostics, 1, k) = tcOut.diagnostics
                  /\ SubSeq(result.diagnostics, k + 1, Len(result.diagnostics))
                       = SelectSeq(cwOut.diagnostics, LAMBDA d :
                           warningFilter(opts.warningFilter, [code |-> d.svelteCode, message |-> d.message]))
        /\ pc = "running" => result = NoResult
        /\ (pc = "running" /\ tcpc = "done") => tcOut = TypeCheckWorkerOutput(fs, opts, results, output)
        /\ (pc = "running" /\ cwpc = "done" /\ ~opts.incremental /\ cwOut.error = "")
             => cwOut.diagnostics = FreshWarnings(fs))
  /\ [][(pc = "running" /\ pc' = "running") =>
          /\ cwpc' # cwpc =>
               (tcOut' = tcOut /\ results' = results /\ \A q \in ConversionFiles : fs'[q] = fs[q])
          /\ tcpc' # tcpc =>
               (cwOut' = cwOut /\ \A q \in WarnPaths : fs'[q] = fs[q])]_vars

\* run() returned type-check diagnostics followed by compiler warnings, from
\* an incremental run of both workers
C26_Witness ==
  /\ MergedReturned /\ opts.incremental /\ opts.svelteWarnings
  /\ tcOut.diagnostics # <<>> /\ cwOut.diagnostics # <<>>
  /\ result.diagnostics = tcOut.diagnostics \o cwOut.diagnostics

\* C27: any two distinct sources of the fan-out in progress have different
\* generated-file paths, different sourcemap paths and different
\* warnings-record paths.
C27_WritesTargetDistinctPaths ==
  tcpc = "convert" =>
    \A sp1 \in DOMAIN tasks, sp2 \in DOMAIN tasks :
      sp1 # sp2 => /\ getTsxPath(sp1) # getTsxPath(sp2)
                   /\ getMapPath(sp1) # getMapPath(sp2)
                   /\ getWarningsCachePath(sp1) # getWarningsCachePath(sp2)

\* the token at index i of the text stands inside a block comment or after
\* the start of a line comment on its line
InComment(text, i) ==
  \/ \E c \in 1..(i - 1) : text[c] = "/*" /\ \A e \in (c + 1)..(i - 1) : text[e] # "*/"
  \/ \E c \in 1..(i - 1) : text[c] = "//" /\ \A e \in c..(i - 1) : text[e] # "\n"

\* the indexes, on the lines after `line`, of the occurrences of $name that
\* stand outside every comment and are not followed by a word character
QualifyingOccurrences(text, name, line) ==
  {i \in 1..(Len(text) - 1) :
     /\ text[i] = "$" /\ text[i + 1] = name
     /\ (i + 2 > Len(text) \/ text[i + 2] \notin WordTokens)
     /\ LineOf(text, i) > line
     /\ ~InComment(text, i)}

\* C28: for a TS2769 diagnostic whose mapping fails, at the argument `foo` of
\* a getter-wrapper call, the rescue chooses the first occurrence of $foo on
\* the later lines that stands outside every comment, is not followed by a
\* word character and has an original position: the diagnostic is emitted at
\* the original position of that occurrence, also when an occurrence in a
\* comment or one followed by a word character stands before it on its line.
C28_RescueChoosesFirstQualifying ==
  MapReturned =>
    \A n \in 1..Len(call.diagnostics) :
      LET d == call.diagnostics[n]
          text == call.tsxContents[d.file]
          map == call.sourcemaps[Resolve(d.file)]
          name == text[TokenAt(text, d.line, d.column)]
          occs == {i \in QualifyingOccurrences(text, name, d.line) :
                     ~NoOriginal(map, LineOf(text, i), ColumnOf(text, i) - 1)}
          first == CHOOSE x \in occs : \A y \in occs : x <= y
      IN (/\ d.code = 2769 /\ MappingFails(d)
          /\ d.file \in DOMAIN call.tsxContents
          /\ TokenAt(text, d.line, d.column) # 0
          /\ AtGetterArgument(d)
          /\ name \in WordTokens
          /\ occs # {})
         => /\ Len(call.ret) = 1
            /\ call.ret[1].originalLine
                 = originalPositionFor(map, LineOf(text, first), ColumnOf(text, first) - 1).line
            /\ call.ret[1].originalColumn
                 = originalPositionFor(map, LineOf(text, first), ColumnOf(text, first) - 1).column + 1

\* C29: every call of run() finishes: it returns a CheckResult or throws,
\* whatever its workers do (post their result, raise an error, exit with any
\* code before posting).
C29_RunAlwaysFinishes == (pc = "running") ~> (pc = "returned")

\* an incremental conversion starts: the files are classified and the
\* skipped ones keep their generated file
IncrementalConversionStarts ==
  tcpc \in {"idle", "done"} /\ tcpc' = "convert" /\ opts'.incremental

\* the generated file of the source is the transpilation of what the source
\* holds now
FreshTsx(f, sp) == f[getTsxPath(sp)].data = svelte2tsx(f[sp].data).code

\* C30: no stale cache hit.  Whenever an incremental run skips the
\* conversion of a source file, the generated file it reuses was computed
\* from the file's current content, also when the source was saved while an
\* earlier run was reading, transpiling or writing that file.
C30_NoStaleCacheHit ==
  [][IncrementalConversionStarts =>
       \A sp \in Range(skippedFiles(fs)) : FreshTsx(fs, sp)]_vars

====
